---- MODULE Spec2Model ----
(***************************************************************************)
(* Model of ModelViewer (src/src/model_viewer.py): the load / clear /      *)
(* reconcile state machine, the per-part GPU resource maps and the render  *)
(* loop, together with the shell's visibility toggle                       *)
(* (src/src/interfaces/customizer.py).                                     *)
(*                                                                         *)
(* Python dicts are functions whose DOMAIN is the key set; lists are       *)
(* sequences (list index i is sequence index i+1); None is the value None. *)
(* A GPU handle (a texture name or a vbo.VBO object) is a positive         *)
(* integer; the GL context knows which handles are live (allocated and not *)
(* deleted) and hands out the smallest name that is not live.  gl_deleted  *)
(* counts the explicit delete calls the running handler made per handle.   *)
(***************************************************************************)
EXTENDS Integers, Sequences, FiniteSets, TLC

\* ------------------------------------------------------------------ bounds
\* loads stop once more than MaxHandles handles are live
MaxHandles == 9
\* part ids the shell's checklist can toggle: 0 .. MaxToggleId
MaxToggleId == 1
\* elements an accessor of the decoder's test assets declares: up to MaxCount
\* rows, up to 3 * MaxCount indices
MaxCount == 3

\* ----------------------------------------------------------- basic values
None == -1

\* Python truthiness of a handle: "if tex_id:" is false for None and for 0
Truthy(x) == x # None /\ x # 0

EmptyDict == [k \in {} |-> None]

\* d[k] = val
Put(d, k, val) == [x \in (DOMAIN d) \cup {k} |-> IF x = k THEN val ELSE d[x]]

\* d.pop(k, None)
Pop(d, k) == [x \in (DOMAIN d) \ {k} |-> d[x]]

\* d.get(k, default)
Get(d, k, default) == IF k \in DOMAIN d THEN d[k] ELSE default

\* set(range(len(xs)))
RangeLen(xs) == 0 .. (Len(xs) - 1)

RECURSIVE SumSeq(_)
SumSeq(s) == IF s = << >> THEN 0 ELSE Head(s) + SumSeq(Tail(s))

RECURSIVE Concat(_)
Concat(ss) == IF ss = << >> THEN << >> ELSE Head(ss) \o Concat(Tail(ss))

\* position components per vertex (pos_size)
Dim == 3

\* target extent of scale_model
TargetExtent == 4

\* ------------------------------------------------------------ file system
\* A path is its stem and its extension, so that path.lower().endswith()
\* can be computed; two paths are equal iff both parts are equal.
PA == [stem |-> "a", ext |-> "gltf"]
PB == [stem |-> "b", ext |-> "GLB"]
PC == [stem |-> "c", ext |-> "gltf"]
PD == [stem |-> "d", ext |-> "obj"]
PE == [stem |-> "e", ext |-> "gltf"]
PM == [stem |-> "m", ext |-> "glb"]

Paths == {PA, PB, PC, PD, PE, PM}

\* str.lower() on the extensions in use
Lower(e) == CASE e = "GLB" -> "glb"
              [] e = "GLTF" -> "gltf"
              [] OTHER -> e

\* path.lower().endswith(('.gltf', '.glb'))
IsGltfPath(path) == Lower(path.ext) \in {"gltf", "glb"}

\* one glTF primitive as the exporter saw it, with the arrays it wrote
\* (material is None when the primitive names no material; has_indices says
\* whether primitive.indices is set, faces being the triangles)
Prim(material, has_position, vertices, has_indices, faces, has_normals, has_uv, alloc_fault) ==
    [material |-> material, has_position |-> has_position, vertices |-> vertices,
     has_indices |-> has_indices, faces |-> faces, has_normals |-> has_normals,
     has_uv |-> has_uv, alloc_fault |-> alloc_fault]

Tri == << <<0, 0, 0>>, <<2, 0, 0>>, <<0, 1, 0>> >>
Quad == << <<1, 1, 1>>, <<1, 3, 1>>, <<1, 1, 2>>, <<0, 1, 1>>, <<1, 0, 1>>, <<1, 1, 0>> >>

GoodPrim(material) == Prim(material, TRUE, Tri, TRUE, << <<0, 1, 2>> >>, TRUE, TRUE, "none")
LoosePrim(material) == Prim(material, TRUE, Quad, FALSE, << >>, FALSE, FALSE, "none")
NoPosPrim(material) == Prim(material, FALSE, << >>, FALSE, << >>, FALSE, FALSE, "none")
FaultyPrim(material, slot) == Prim(material, TRUE, Tri, TRUE, << <<0, 1, 2>> >>, TRUE, TRUE, slot)

\* one entry of gltf.meshes; name "" is a mesh without a name, and
\* primitives_none marks a malformed mesh whose primitives is None
GltfMesh(name, primitives) == [name |-> name, primitives_none |-> FALSE, primitives |-> primitives]
BrokenMesh(name) == [name |-> name, primitives_none |-> TRUE, primitives |-> << >>]

\* an image entry of the asset: uri is "none" (embedded), "data" or "file"
Img(uri, exists, decodes) == [uri |-> uri, exists |-> exists, decodes |-> decodes]

\* an entry of gltf.materials: the indices into gltf.textures of its
\* pbrMetallicRoughness.baseColorTexture and its normalTexture, or None
Material(baseColorTexture, normalTexture) ==
    [baseColorTexture |-> baseColorTexture, normalTexture |-> normalTexture]

\* an entry of gltf.textures: source is an index into gltf.images
Texture(source) == [source |-> source]

\* trimesh.load raises for a file it cannot read
NoTrimesh == [load |-> "raise"]

\* what each file on disk holds.  exists: os.path.exists(path);
\* parse_ok: GLTF2().load(path) returns; has_buffers: gltf.buffers and
\* gltf.bufferViews are non-empty; buffer_uri_none: gltf.buffers[0].uri is
\* None; buffer_exists: the external buffer file exists; blob_ok:
\* gltf.binary_blob() is not None; exported: the files export_textures()
\* writes, in os.listdir order, each with the index of the embedded image
\* it holds; trimesh: what trimesh.load returns.
\* The meshes of FileA .. FileE are the arrays the exporter wrote; Exported
\* lays them out as buffer bytes, bufferViews and accessors.
FileA ==
    [exists |-> TRUE, parse_ok |-> TRUE, has_buffers |-> TRUE,
     buffer_uri_none |-> FALSE, buffer_exists |-> TRUE, blob_ok |-> FALSE,
     meshes |-> << GltfMesh("Body", << GoodPrim(0) >>),
                   GltfMesh("", << LoosePrim(None) >>) >>,
     images |-> << Img("file", TRUE, TRUE) >>,
     materials |-> << Material(0, None) >>, textures |-> << Texture(0) >>,
     exported |-> << >>, trimesh |-> NoTrimesh]

FileB ==
    [exists |-> TRUE, parse_ok |-> TRUE, has_buffers |-> TRUE,
     buffer_uri_none |-> TRUE, buffer_exists |-> FALSE, blob_ok |-> TRUE,
     meshes |-> << GltfMesh("", << GoodPrim(1), NoPosPrim(0), LoosePrim(None) >>),
                   GltfMesh("Tail", << NoPosPrim(0) >>) >>,
     images |-> << Img("file", TRUE, TRUE), Img("none", FALSE, TRUE) >>,
     materials |-> << Material(None, None), Material(0, None) >>,
     textures |-> << Texture(1) >>,
     exported |-> << [decodes |-> TRUE, image |-> 1] >>, trimesh |-> NoTrimesh]

FileC ==
    [exists |-> TRUE, parse_ok |-> TRUE, has_buffers |-> TRUE,
     buffer_uri_none |-> FALSE, buffer_exists |-> TRUE, blob_ok |-> FALSE,
     meshes |-> << GltfMesh("", << GoodPrim(None), LoosePrim(None), FaultyPrim(0, "uv") >>),
                   BrokenMesh("Broken") >>,
     images |-> << Img("file", FALSE, TRUE), Img("data", FALSE, TRUE) >>,
     materials |-> << Material(0, None) >>, textures |-> << Texture(0) >>,
     exported |-> << >>, trimesh |-> NoTrimesh]

FileD ==
    [exists |-> TRUE, parse_ok |-> FALSE, has_buffers |-> FALSE,
     buffer_uri_none |-> TRUE, buffer_exists |-> FALSE, blob_ok |-> FALSE,
     meshes |-> << >>, images |-> << >>, materials |-> << >>, textures |-> << >>,
     exported |-> << >>,
     trimesh |-> [load |-> "mesh", vertices |-> Tri,
                  has_indices |-> TRUE, faces |-> << <<0, 1, 2>> >>,
                  has_normals |-> TRUE, has_uv |-> TRUE, image |-> "str", image_exists |-> TRUE,
                  image_decodes |-> FALSE]]

FileE ==
    [exists |-> TRUE, parse_ok |-> TRUE, has_buffers |-> TRUE,
     buffer_uri_none |-> FALSE, buffer_exists |-> FALSE, blob_ok |-> FALSE,
     meshes |-> << GltfMesh("", << GoodPrim(0), GoodPrim(None) >>) >>,
     images |-> << >>, materials |-> << Material(None, None) >>, textures |-> << >>,
     exported |-> << >>, trimesh |-> NoTrimesh]

FileMissing ==
    [exists |-> FALSE, parse_ok |-> FALSE, has_buffers |-> FALSE,
     buffer_uri_none |-> TRUE, buffer_exists |-> FALSE, blob_ok |-> FALSE,
     meshes |-> << >>, images |-> << >>, materials |-> << >>, textures |-> << >>,
     exported |-> << >>, trimesh |-> NoTrimesh]

\* ---------------------------------------------------------- glTF binary
\* accessor.componentType codes of glTF
BYTE == 5120
UNSIGNED_BYTE == 5121
SHORT == 5122
UNSIGNED_SHORT == 5123
UNSIGNED_INT == 5125
FLOAT == 5126

\* bytes per component of a componentType
ComponentSize(componentType) ==
    CASE componentType \in {BYTE, UNSIGNED_BYTE} -> 1
      [] componentType \in {SHORT, UNSIGNED_SHORT} -> 2
      [] OTHER -> 4

\* the little-endian bytes of a component value
RECURSIVE ToBytes(_, _)
ToBytes(v, size) ==
    IF size = 0 THEN << >> ELSE <<v % 256>> \o ToBytes(v \div 256, size - 1)

\* the bytes of an array of components
Encode(values, size) == Concat([i \in DOMAIN values |-> ToBytes(values[i], size)])

\* a primitive as pygltflib presents it: POSITION, NORMAL, TEXCOORD_0 and
\* indices are accessor indices or None
Primitive(material, POSITION, NORMAL, TEXCOORD_0, indices, alloc_fault) ==
    [material |-> material, POSITION |-> POSITION, NORMAL |-> NORMAL,
     TEXCOORD_0 |-> TEXCOORD_0, indices |-> indices, alloc_fault |-> alloc_fault]

\* one array of the file: the attribute it belongs to, its components,
\* their type and the number of elements
Array(attribute, values, componentType, count) ==
    [attribute |-> attribute, values |-> values,
     componentType |-> componentType, count |-> count]

\* the arrays the exporter writes for prim, in file order: positions,
\* normals and uvs as FLOAT, indices as UNSIGNED_SHORT
Arrays(prim) ==
    (IF prim.has_position
     THEN << Array("POSITION", Concat(prim.vertices), FLOAT, Len(prim.vertices)) >>
     ELSE << >>)
    \o (IF prim.has_indices
        THEN << Array("indices", Concat(prim.faces), UNSIGNED_SHORT, 3 * Len(prim.faces)) >>
        ELSE << >>)
    \o (IF prim.has_normals
        THEN << Array("NORMAL", Concat([i \in 1 .. Len(prim.vertices) |-> <<0, 0, 1>>]),
                      FLOAT, Len(prim.vertices)) >>
        ELSE << >>)
    \o (IF prim.has_uv
        THEN << Array("TEXCOORD_0", Concat([i \in 1 .. Len(prim.vertices) |-> <<0, 1>>]),
                      FLOAT, Len(prim.vertices)) >>
        ELSE << >>)

\* the arrays of the first `upto` primitives of a mesh
MeshArrays(mesh, upto) ==
    Concat([p \in 1 .. upto |-> Arrays(mesh.primitives[p])])

\* the arrays of a file: those of the meshes before mesh m and of the
\* primitives of mesh m before primitive p
ArraysBefore(file, m, p) ==
    Concat([k \in 1 .. m - 1 |->
               MeshArrays(file.meshes[k], Len(file.meshes[k].primitives))])
    \o (IF m \in DOMAIN file.meshes THEN MeshArrays(file.meshes[m], p - 1) ELSE << >>)

\* every array of the file
FileArrays(file) == ArraysBefore(file, Len(file.meshes) + 1, 1)

\* bytes an array takes, tightly packed
ByteLength(array) == Len(array.values) * ComponentSize(array.componentType)

\* each array has a bufferView of its own, one after the other
RECURSIVE ByteOffset(_, _)
ByteOffset(arrays, i) ==
    IF i = 1 THEN 0 ELSE ByteOffset(arrays, i - 1) + ByteLength(arrays[i - 1])

\* the accessor index of an attribute of primitive p of mesh m, or None
AccessorOf(file, m, p, attribute) ==
    LET own == Arrays(file.meshes[m].primitives[p])
    IN IF \E i \in DOMAIN own : own[i].attribute = attribute
       THEN Len(ArraysBefore(file, m, p))
            + (CHOOSE i \in DOMAIN own : own[i].attribute = attribute) - 1
       ELSE None

ExportPrimitive(file, m, p) ==
    Primitive(file.meshes[m].primitives[p].material,
              AccessorOf(file, m, p, "POSITION"),
              AccessorOf(file, m, p, "NORMAL"),
              AccessorOf(file, m, p, "TEXCOORD_0"),
              AccessorOf(file, m, p, "indices"),
              file.meshes[m].primitives[p].alloc_fault)

\* the file with its meshes laid out as glTF binary data
Exported(file) ==
    [buffer_data |->
         Concat([i \in DOMAIN FileArrays(file) |->
                    Encode(FileArrays(file)[i].values,
                           ComponentSize(FileArrays(file)[i].componentType))]),
     bufferViews |->
         [i \in DOMAIN FileArrays(file) |->
             [byteOffset |-> ByteOffset(FileArrays(file), i),
              byteLength |-> ByteLength(FileArrays(file)[i]),
              byteStride |-> None]],
     accessors |->
         [i \in DOMAIN FileArrays(file) |->
             [bufferView |-> i - 1, byteOffset |-> 0,
              componentType |-> FileArrays(file)[i].componentType,
              count |-> FileArrays(file)[i].count]],
     meshes |->
         [m \in DOMAIN file.meshes |->
             [file.meshes[m] EXCEPT
                 !.primitives = [p \in DOMAIN file.meshes[m].primitives |->
                                    ExportPrimitive(file, m, p)]]]]
    @@ file

\* a file whose accessor accessor_idx declares `count` elements
WithAccessorCount(gltf, accessor_idx, count) ==
    [gltf EXCEPT !.accessors[accessor_idx + 1].count = count]

\* what os.path.exists, GLTF2().load and trimesh.load find at a path; in
\* c.gltf the accessor of the second primitive's positions declares one
\* vertex more than its bufferView holds
Stored(path) ==
    CASE path = PA -> Exported(FileA)
      [] path = PB -> Exported(FileB)
      [] path = PC -> WithAccessorCount(Exported(FileC), 4, Len(Quad) + 1)
      [] path = PD -> Exported(FileD)
      [] path = PE -> Exported(FileE)
      [] OTHER -> Exported(FileMissing)

VARIABLE disk        \* the files on disk, by path; the viewer only reads them

Asset(path) == disk[path]

\* ------------------------------------------------------- optional values
\* an attribute that holds None or an object: << >> is None, <<x>> is x
NoneObj == << >>
Some(x) == << x >>

\* the camera fields ModelViewer.__init__ sets.  Angles, distances and the
\* zoom are kept in hundredths, so that the factors 0.5 and 0.01 of the
\* input handlers stay in the integers: 30 is 3000 and -5.0 is -500.
NewCamera ==
    [rotation_x |-> 3000, rotation_y |-> 3000,
     translate_x |-> 0, translate_y |-> 0, zoom |-> -500,
     last_pos |-> NoneObj]

\* ------------------------------------------------------------ GL context
\* glGenTextures(1) / vbo.VBO(data): the smallest handle that is not live
NewHandle(w) ==
    CHOOSE h \in 1 .. (Cardinality(w.gl_live) + 1) :
        /\ h \notin w.gl_live
        /\ \A g \in 1 .. (h - 1) : g \in w.gl_live

Allocated(w) == [w EXCEPT !.gl_live = @ \cup {NewHandle(w)}]

\* glDeleteTextures([h]) / vbo.delete(): one explicit delete of handle h;
\* a deleted texture loses its pixels, a deleted buffer its array
Deleted(w, h) == [w EXCEPT !.gl_live = @ \ {h},
                           !.gl_deleted = Put(@, h, Get(@, h, 0) + 1),
                           !.gl_pixels = Pop(@, h),
                           !.gl_arrays = Pop(@, h)]

\* an exception reached the except clause of load_gltf_model ("gltf") or
\* of load_model ("clear" when clear_model_data raised it, "load"
\* otherwise); exceptions contained by extract_primitive_mesh,
\* create_vbos_for_part, load_texture and load_gltf_textures are not recorded
Caught(w, where) == [w EXCEPT !.raised = where]

\* for tex_id in self.texture_ids.values(): if tex_id: glDeleteTextures
RECURSIVE DeleteTextures(_, _, _)
DeleteTextures(w, d, keys) ==
    IF keys = {} THEN w
    ELSE LET k == CHOOSE x \in keys : TRUE
         IN DeleteTextures(IF Truthy(d[k]) THEN Deleted(w, d[k]) ELSE w, d, keys \ {k})

\* (a loop that forgets vbo.delete())
DeleteVbos_skip(w, d, keys) == w

\* for vbo in d.values(): if vbo is not None: vbo.delete()
RECURSIVE DeleteVbos(_, _, _)
DeleteVbos(w, d, keys) ==
    IF keys = {} THEN w
    ELSE LET k == CHOOSE x \in keys : TRUE
         IN DeleteVbos(IF d[k] # None THEN Deleted(w, d[k]) ELSE w, d, keys \ {k})

\* ------------------------------------------------------ clear_model_data
\* the texture loop and self.texture_ids.clear(); self.material_map.clear()
ClearTextures(w) ==
    [DeleteTextures(w, w.texture_ids, DOMAIN w.texture_ids)
        EXCEPT !.texture_ids = EmptyDict, !.material_map = EmptyDict]

\* (the vertex loop without self.vertex_vbos.clear())
ClearVertexVbos_keep(w) == DeleteVbos(w, w.vertex_vbos, DOMAIN w.vertex_vbos)

\* the vertex loop and self.vertex_vbos.clear()
ClearVertexVbos(w) ==
    [DeleteVbos(w, w.vertex_vbos, DOMAIN w.vertex_vbos) EXCEPT !.vertex_vbos = EmptyDict]

\* the uv loop and self.uv_vbos.clear()
ClearUvVbos(w) ==
    [DeleteVbos(w, w.uv_vbos, DOMAIN w.uv_vbos) EXCEPT !.uv_vbos = EmptyDict]

\* the normal loop and self.normal_vbos.clear()
ClearNormalVbos(w) ==
    [DeleteVbos(w, w.normal_vbos, DOMAIN w.normal_vbos) EXCEPT !.normal_vbos = EmptyDict]

\* (a clear that leaves the Visibility Map alone)
ResetVisibility_keep(w) == w

\* self.part_visibility = {}
ResetVisibility(w) == [w EXCEPT !.part_visibility = EmptyDict]

\* (a clear that also puts the camera back where __init__ had it)
clear_model_data_view(w, gl_fault) ==
    [w EXCEPT !.mesh = NoneObj, !.meshes = << >>, !.camera = NewCamera]

\* gl_fault: the GL context rejects the first glDeleteTextures call, which
\* raises out of clear_model_data after self.meshes.clear()
clear_model_data(w, gl_fault) ==
    LET w1 == [w EXCEPT !.mesh = NoneObj, !.meshes = << >>]
    IN IF gl_fault /\ \E k \in DOMAIN w.texture_ids : Truthy(w.texture_ids[k])
       THEN [w1 EXCEPT !.exc = TRUE]
       ELSE LET w2 == ClearNormalVbos(ClearUvVbos(ClearVertexVbos(ClearTextures(w1))))
            IN ResetVisibility([w2 EXCEPT !.index_buffers = EmptyDict,
                                          !.num_faces = EmptyDict,
                                          !.part_names = EmptyDict])

\* ---------------------------------------------- apply_visibility_settings
RECURSIVE SetVisibility(_, _, _)
SetVisibility(vis, original_visibility, parts) ==
    IF parts = {} THEN vis
    ELSE LET part_id == CHOOSE x \in parts : TRUE
         IN SetVisibility(
                Put(vis, part_id,
                    IF part_id \in DOMAIN original_visibility
                    THEN original_visibility[part_id] ELSE TRUE),
                original_visibility, parts \ {part_id})

RECURSIVE PopAll(_, _)
PopAll(vis, parts) ==
    IF parts = {} THEN vis
    ELSE LET part_id == CHOOSE x \in parts : TRUE
         IN PopAll(Pop(vis, part_id), parts \ {part_id})

\* (a same-model branch that resets every part to visible)
apply_visibility_settings_reset(w, original_visibility, is_same_model) ==
    LET current_parts == RangeLen(w.meshes)
        config_parts == DOMAIN original_visibility
        applied == SetVisibility(w.part_visibility, original_visibility, current_parts)
    IN IF is_same_model
       THEN [w EXCEPT !.part_visibility = SetVisibility(@, EmptyDict, current_parts)]
       ELSE [w EXCEPT !.part_visibility = PopAll(applied, config_parts \ current_parts)]

\* (a same-model branch that starts from the snapshot, keeping its stale ids)
apply_visibility_settings_restore(w, original_visibility, is_same_model) ==
    LET current_parts == RangeLen(w.meshes)
        config_parts == DOMAIN original_visibility
        applied == SetVisibility(w.part_visibility, original_visibility, current_parts)
    IN IF is_same_model
       THEN [w EXCEPT !.part_visibility =
                         SetVisibility(original_visibility, original_visibility, current_parts)]
       ELSE [w EXCEPT !.part_visibility = PopAll(applied, config_parts \ current_parts)]

apply_visibility_settings(w, original_visibility, is_same_model) ==
    LET current_parts == RangeLen(w.meshes)
        config_parts == DOMAIN original_visibility
        applied == SetVisibility(w.part_visibility, original_visibility, current_parts)
    IN IF is_same_model
       THEN [w EXCEPT !.part_visibility = applied]
       ELSE [w EXCEPT !.part_visibility = PopAll(applied, config_parts \ current_parts)]

\* ------------------------------------------------- extract_primitive_mesh
\* the trimesh.Trimesh built from a primitive.  Positions are exact
\* rationals: vertex i, axis a is vertices[i][a] / den.  src names the
\* primitive the mesh was built from; alloc_fault is the buffer slot whose
\* allocation the GL driver refuses for this mesh ("none" if it refuses none).
TrimeshOf(vertices, has_faces, faces, vertex_normals, has_uv, alloc_fault, src) ==
    [vertices |-> vertices, den |-> 1, has_faces |-> has_faces, faces |-> faces,
     vertex_normals |-> vertex_normals, has_uv |-> has_uv,
     alloc_fault |-> alloc_fault, src |-> src]

\* buffer_data[start:start + length]: a slice never reads past the end
Slice(data, start, length) ==
    IF start >= Len(data) THEN << >>
    ELSE SubSeq(data, start + 1,
                IF start + length <= Len(data) THEN start + length ELSE Len(data))

\* dtype.itemsize
ItemSize(dtype) ==
    CASE dtype = "uint8" -> 1
      [] dtype \in {"uint16", "float16"} -> 2
      [] dtype \in {"uint32", "float32"} -> 4

\* the number that `size` little-endian bytes hold
RECURSIVE LittleEndian(_)
LittleEndian(bytes) ==
    IF bytes = << >> THEN 0 ELSE Head(bytes) + 256 * LittleEndian(Tail(bytes))

\* np.frombuffer(data, dtype=dtype): NoneObj when it raises ValueError
\* (buffer size must be a multiple of element size)
frombuffer(data, dtype) ==
    LET size == ItemSize(dtype)
    IN IF Len(data) % size # 0 THEN NoneObj
       ELSE Some([i \in 1 .. (Len(data) \div size) |->
                     LittleEndian(SubSeq(data, (i - 1) * size + 1, i * size))])

\* arr.reshape(rows, cols): NoneObj when it raises ValueError
reshape(arr, rows, cols) ==
    IF Len(arr) # rows * cols THEN NoneObj
    ELSE Some([r \in 1 .. rows |-> [c \in 1 .. cols |-> arr[(r - 1) * cols + c]]])

\* arr.reshape(-1, cols)
reshape_any(arr, cols) ==
    IF Len(arr) % cols # 0 THEN NoneObj ELSE reshape(arr, Len(arr) \div cols, cols)

\* buffer_data[offset:offset + buffer_view.byteLength] with
\* offset = buffer_view.byteOffset + (accessor.byteOffset or 0)
AccessorBytes(gltf, buffer_data, accessor) ==
    LET buffer_view == gltf.bufferViews[accessor.bufferView + 1]
    IN Slice(buffer_data, buffer_view.byteOffset + accessor.byteOffset,
             buffer_view.byteLength)

\* np.float32 if pos_type == 5126 else np.float16
PositionDtype(pos_type) == IF pos_type = FLOAT THEN "float32" ELSE "float16"

\* {5121: np.uint8, 5123: np.uint16, 5125: np.uint32}.get(idx_type, np.uint32)
IndexDtype(idx_type) ==
    CASE idx_type = UNSIGNED_BYTE -> "uint8"
      [] idx_type = UNSIGNED_SHORT -> "uint16"
      [] OTHER -> "uint32"

\* np.frombuffer(bytes, dtype).reshape(count, cols) of an accessor
DecodeRows(gltf, buffer_data, accessor_idx, dtype, cols) ==
    LET accessor == gltf.accessors[accessor_idx + 1]
        flat == frombuffer(AccessorBytes(gltf, buffer_data, accessor), dtype)
    IN IF flat = NoneObj THEN NoneObj ELSE reshape(flat[1], accessor.count, cols)

\* vertices: the POSITION accessor as pos_count rows of pos_size components
DecodePositions(gltf, buffer_data, accessor_idx) ==
    DecodeRows(gltf, buffer_data, accessor_idx,
               PositionDtype(gltf.accessors[accessor_idx + 1].componentType), Dim)

\* faces: the index accessor as rows of 3; idx_count is not used
DecodeFaces(gltf, buffer_data, accessor_idx) ==
    LET accessor == gltf.accessors[accessor_idx + 1]
        indices == frombuffer(AccessorBytes(gltf, buffer_data, accessor),
                              IndexDtype(accessor.componentType))
    IN IF indices = NoneObj THEN NoneObj ELSE reshape_any(indices[1], 3)

\* normals: always np.float32, norm_count rows of 3
DecodeNormals(gltf, buffer_data, accessor_idx) ==
    DecodeRows(gltf, buffer_data, accessor_idx, "float32", 3)

\* uv: always np.float32, uv_count rows of 2
DecodeUv(gltf, buffer_data, accessor_idx) ==
    DecodeRows(gltf, buffer_data, accessor_idx, "float32", 2)

\* lines 365-436 of extract_primitive_mesh: any exception of a decode makes
\* it return None
DecodePrimitive(gltf, buffer_data, primitive, src) ==
    IF primitive.POSITION = None THEN NoneObj
    ELSE LET vertices == DecodePositions(gltf, buffer_data, primitive.POSITION)
             has_faces == primitive.indices # None
             faces == IF has_faces THEN DecodeFaces(gltf, buffer_data, primitive.indices)
                      ELSE Some(<< >>)
             has_normals == primitive.NORMAL # None
             normals == IF has_normals THEN DecodeNormals(gltf, buffer_data, primitive.NORMAL)
                        ELSE Some(<< >>)
             has_uv == primitive.TEXCOORD_0 # None
             uv == IF has_uv THEN DecodeUv(gltf, buffer_data, primitive.TEXCOORD_0)
                   ELSE Some(<< >>)
         IN IF vertices = NoneObj \/ faces = NoneObj \/ normals = NoneObj \/ uv = NoneObj
            THEN NoneObj
            ELSE Some(TrimeshOf(vertices[1], has_faces, faces[1], has_normals, has_uv,
                                primitive.alloc_fault, src))

\* (an extraction that never looks for the external buffer file)
extract_primitive_mesh_nofile(gltf, primitive, src) ==
    IF ~gltf.has_buffers THEN NoneObj
    ELSE IF gltf.buffer_uri_none /\ ~gltf.blob_ok THEN NoneObj
    ELSE DecodePrimitive(gltf, gltf.buffer_data, primitive, src)

\* returns NoneObj or Some(mesh); buffer_data is gltf.binary_blob() or the
\* bytes of the external buffer file
extract_primitive_mesh(gltf, primitive, src) ==
    IF ~gltf.has_buffers THEN NoneObj
    ELSE IF gltf.buffer_uri_none /\ ~gltf.blob_ok THEN NoneObj
    ELSE IF ~gltf.buffer_uri_none /\ ~gltf.buffer_exists THEN NoneObj
    ELSE DecodePrimitive(gltf, gltf.buffer_data, primitive, src)

\* --------------------------------------------------- create_vbos_for_part
\* np.array(mesh.faces, dtype=np.uint32).flatten()
Flatten(faces) == Concat(faces)

\* np.array(mesh.vertices, dtype=np.float32): the positions as the vertex
\* buffer receives them, numerators over the mesh's denominator, in single
\* precision
Float32(mesh) == [vertices |-> mesh.vertices, den |-> mesh.den, dtype |-> "float32"]

\* the except clause of create_vbos_for_part
VboFailure(w, part_id) ==
    [w EXCEPT !.vertex_vbos = Put(@, part_id, None),
                      !.normal_vbos = Put(@, part_id, None),
                      !.uv_vbos = Put(@, part_id, None),
                      !.index_buffers = Put(@, part_id, NoneObj)]

create_vbos_for_part(w, part_id, mesh) ==
    IF mesh.alloc_fault = "vertex" THEN VboFailure(w, part_id)
    ELSE
    LET w1 == [Allocated(w) EXCEPT !.vertex_vbos = Put(@, part_id, NewHandle(w)),
                                   !.gl_arrays = Put(@, NewHandle(w), Float32(mesh))]
    IN IF mesh.vertex_normals /\ mesh.alloc_fault = "normal" THEN VboFailure(w1, part_id)
       ELSE
       LET w2 == IF mesh.vertex_normals
                 THEN [Allocated(w1) EXCEPT !.normal_vbos = Put(@, part_id, NewHandle(w1))]
                 ELSE [w1 EXCEPT !.normal_vbos = Put(@, part_id, None)]
           w3 == [w2 EXCEPT !.uv_vbos = Put(@, part_id, None)]
           has_uv_data == mesh.has_uv /\ Len(mesh.vertices) > 0
       IN IF has_uv_data /\ mesh.alloc_fault = "uv" THEN VboFailure(w3, part_id)
          ELSE
          LET w4 == IF has_uv_data
                    THEN [Allocated(w3) EXCEPT !.uv_vbos = Put(@, part_id, NewHandle(w3))]
                    ELSE w3
          IN IF mesh.has_faces
             THEN [w4 EXCEPT !.index_buffers = Put(@, part_id, Some(Flatten(mesh.faces))),
                             !.num_faces = Put(@, part_id, Len(mesh.faces))]
             ELSE [w4 EXCEPT !.index_buffers = Put(@, part_id, NoneObj),
                             !.num_faces = Put(@, part_id, 0)]

\* ------------------------------------------------------------- textures
\* create_texture_from_image(image): glGenTextures(1) and glTexImage2D of
\* the image's pixels; image is the index of the image in the asset
create_texture_from_image(w, image) ==
    [w |-> [Allocated(w) EXCEPT !.gl_pixels = Put(@, NewHandle(w), image)],
     ret |-> NewHandle(w)]

\* load_texture(path): the texture id, or None when the file is missing or
\* PIL cannot open it; image is the image the file at path holds
load_texture(w, exists, decodes, image) ==
    IF ~exists THEN [w |-> w, ret |-> None]
    ELSE IF ~decodes THEN [w |-> w, ret |-> None]
    ELSE create_texture_from_image(w, image)

\* the loop over gltf.images (external files)
RECURSIVE LoadExternalImages(_, _, _)
LoadExternalImages(w, images, i) ==
    IF i > Len(images) THEN w
    ELSE LET image == images[i]
             image_idx == i - 1
         IN IF image.uri = "none" \/ image.uri = "data" \/ ~image.exists
            THEN LoadExternalImages(w, images, i + 1)
            ELSE LET r == load_texture(w, TRUE, image.decodes, image_idx)
                 IN LoadExternalImages(
                        IF Truthy(r.ret)
                        THEN [r.w EXCEPT !.texture_ids = Put(@, image_idx, r.ret)]
                        ELSE r.w,
                        images, i + 1)

\* the loop over os.listdir(temp_dir) after gltf.export_textures(temp_dir)
RECURSIVE LoadExportedTextures(_, _, _)
LoadExportedTextures(w, files, n) ==
    IF n > Len(files) THEN w
    ELSE LET i == n - 1
             r == load_texture(w, TRUE, files[n].decodes, files[n].image)
         IN LoadExportedTextures(
                IF Truthy(r.ret)
                THEN [r.w EXCEPT !.texture_ids = Put(@, i, r.ret)]
                ELSE r.w,
                files, n + 1)

load_gltf_textures(w, path) ==
    LET gltf == Asset(path)
    IN IF ~gltf.parse_ok THEN w
       ELSE LET w1 == LoadExternalImages(w, gltf.images, 1)
            IN IF Lower(path.ext) = "glb"
               THEN LoadExportedTextures(w1, gltf.exported, 1)
               ELSE w1

\* load_generic_textures(model_dir), self.mesh being the trimesh t
load_generic_textures(w, t) ==
    IF t.image = "str"
    THEN IF t.image_exists
         THEN LET r == load_texture(w, TRUE, t.image_decodes, 0)
              IN [r.w EXCEPT !.texture_ids = Put(@, 0, r.ret),
                             !.material_map = Put(@, 0, 0)]
         ELSE w
    ELSE IF t.image = "pil"
    THEN LET r == create_texture_from_image(w, 0)
         IN [r.w EXCEPT !.texture_ids = Put(@, 0, r.ret),
                        !.material_map = Put(@, 0, 0)]
    ELSE w

\* ------------------------------------------------------------ scale_model
\* np.vstack([mesh.vertices for mesh in self.meshes])
RECURSIVE AllVertices(_)
AllVertices(meshes) ==
    IF meshes = << >> THEN << >>
    ELSE Head(meshes).vertices \o AllVertices(Tail(meshes))

MinAxis(vs, a) == CHOOSE m \in {vs[i][a] : i \in DOMAIN vs} :
                      \A i \in DOMAIN vs : m <= vs[i][a]
MaxAxis(vs, a) == CHOOSE m \in {vs[i][a] : i \in DOMAIN vs} :
                      \A i \in DOMAIN vs : m >= vs[i][a]

\* size_range[a] = bounds[1][a] - bounds[0][a]
SizeRange(vs, a) == MaxAxis(vs, a) - MinAxis(vs, a)

\* np.max(size_range)
MaxSizeRange(vs) == CHOOSE m \in {SizeRange(vs, a) : a \in 1 .. Dim} :
                        \A a \in 1 .. Dim : m >= SizeRange(vs, a)

SumAxis(vs, a) == SumSeq([i \in DOMAIN vs |-> vs[i][a]])

\* (a normalizer that centres each part on its own centroid)
ScaledMesh_own(mesh, all_vertices) ==
    LET n == Len(mesh.vertices)
        ext == MaxSizeRange(all_vertices)
    IN [mesh EXCEPT
          !.vertices = [i \in DOMAIN mesh.vertices |->
                          [a \in 1 .. Dim |->
                             TargetExtent * (mesh.vertices[i][a] * n - SumAxis(mesh.vertices, a))]],
          !.den = ext * n]

\* mesh.vertices *= scale; mesh.vertices -= centroid * scale, with
\* scale = 4.0 / ext and centroid[a] = sum[a] / n: the new value of a
\* coordinate v / den is 4 * (v * n - sum[a]) / (ext * n)
ScaledMesh(mesh, all_vertices) ==
    LET n == Len(all_vertices)
        ext == MaxSizeRange(all_vertices)
    IN [mesh EXCEPT
          !.vertices = [i \in DOMAIN mesh.vertices |->
                          [a \in 1 .. Dim |->
                             TargetExtent * (mesh.vertices[i][a] * n - SumAxis(all_vertices, a))]],
          !.den = ext * n]

\* the loop "for part_id, mesh in enumerate(self.meshes)" of scale_model,
\* from list index i on
RECURSIVE ScaleParts(_, _, _)
ScaleParts(w, all_vertices, i) ==
    IF i > Len(w.meshes) THEN w
    ELSE LET part_id == i - 1
             mesh == w.meshes[i]
         IN IF Len(mesh.vertices) > 0
            THEN LET scaled == ScaledMesh(mesh, all_vertices)
                     w1 == [w EXCEPT !.meshes[i] = scaled]
                 IN ScaleParts(
                        IF part_id \in DOMAIN w1.vertex_vbos /\ w1.vertex_vbos[part_id] # None
                        THEN create_vbos_for_part(w1, part_id, scaled)
                        ELSE w1,
                        all_vertices, i + 1)
            ELSE ScaleParts(w, all_vertices, i + 1)

\* self.mesh is the same object as self.meshes[0] whenever self.meshes is
\* not empty, so it sees the scaled vertices
FirstAsMesh(w) == [w EXCEPT !.mesh = Some(w.meshes[1])]

\* (a normalizer that skips the zero-extent test)
scale_model_unguarded(w) ==
    IF w.meshes = << >> THEN w
    ELSE LET all_vertices == AllVertices(w.meshes)
         IN IF Len(all_vertices) = 0 THEN w
            ELSE FirstAsMesh(ScaleParts(w, all_vertices, 1))

scale_model(w) ==
    IF w.meshes = << >> THEN w
    ELSE LET all_vertices == AllVertices(w.meshes)
         IN IF Len(all_vertices) = 0 THEN w
            ELSE IF MaxSizeRange(all_vertices) = 0 THEN w
            ELSE FirstAsMesh(ScaleParts(w, all_vertices, 1))

\* -------------------------------------------------------- load_gltf_model
\* f"Mesh_{mesh_idx}_Prim_{prim_idx}"
SynthName(mesh_idx, prim_idx) == <<"Mesh", mesh_idx, "Prim", prim_idx>>

\* gltf_mesh.name if gltf_mesh.name else the synthesized name
MeshName(gltf_mesh, mesh_idx, prim_idx) ==
    IF gltf_mesh.name # "" THEN <<gltf_mesh.name>> ELSE SynthName(mesh_idx, prim_idx)

\* (a part id that counts from one)
NextPartId_off(w) == Len(w.meshes) + 1

\* part_id = len(self.meshes)
NextPartId(w) == Len(w.meshes)

\* (an iteration that appends an empty part for a primitive it cannot extract)
LoadPrimitive_placeholder(w, gltf, mesh_idx, prim_idx) ==
    LET gltf_mesh == gltf.meshes[mesh_idx + 1]
        primitive == gltf_mesh.primitives[prim_idx + 1]
        part_id == NextPartId(w)
        extracted == extract_primitive_mesh(gltf, primitive, <<mesh_idx, prim_idx>>)
        mesh == IF extracted # NoneObj THEN extracted[1]
                ELSE TrimeshOf(<< >>, FALSE, << >>, FALSE, FALSE, "none", <<mesh_idx, prim_idx>>)
        w2 == [w EXCEPT
                 !.part_names = Put(@, part_id, MeshName(gltf_mesh, mesh_idx, prim_idx)),
                 !.meshes = Append(@, mesh),
                 !.part_visibility =
                     IF part_id \notin DOMAIN @ THEN Put(@, part_id, TRUE) ELSE @]
    IN create_vbos_for_part(w2, part_id, mesh)

\* "if mesh:" and its body: the part is named, appended, made visible
\* unless it has a flag already, and given its buffers
AddPart(w, part_id, part_name, mesh) ==
    IF mesh # NoneObj
    THEN create_vbos_for_part(
             [w EXCEPT
                !.part_names = Put(@, part_id, part_name),
                !.meshes = Append(@, mesh[1]),
                !.part_visibility =
                    IF part_id \notin DOMAIN @ THEN Put(@, part_id, TRUE) ELSE @],
             part_id, mesh[1])
    ELSE w

\* one iteration of the inner loop of load_gltf_model
LoadPrimitive(w, gltf, mesh_idx, prim_idx) ==
    LET gltf_mesh == gltf.meshes[mesh_idx + 1]
        primitive == gltf_mesh.primitives[prim_idx + 1]
        part_id == NextPartId(w)
        material_idx == primitive.material
    IN AddPart(IF material_idx # None
               THEN [w EXCEPT !.material_map = Put(@, part_id, material_idx)]
               ELSE w,
               part_id, MeshName(gltf_mesh, mesh_idx, prim_idx),
               extract_primitive_mesh(gltf, primitive, <<mesh_idx, prim_idx>>))

RECURSIVE LoadPrimitives(_, _, _, _)
LoadPrimitives(w, gltf, mesh_idx, prim_idx) ==
    IF prim_idx >= Len(gltf.meshes[mesh_idx + 1].primitives) THEN w
    ELSE LoadPrimitives(LoadPrimitive(w, gltf, mesh_idx, prim_idx),
                        gltf, mesh_idx, prim_idx + 1)

\* the outer loop; iterating a mesh whose primitives is None raises, which
\* leaves the loop with exc set
RECURSIVE LoadMeshes(_, _, _)
LoadMeshes(w, gltf, mesh_idx) ==
    IF mesh_idx >= Len(gltf.meshes) THEN w
    ELSE IF gltf.meshes[mesh_idx + 1].primitives_none
    THEN [w EXCEPT !.exc = TRUE]
    ELSE LoadMeshes(LoadPrimitives(w, gltf, mesh_idx, 0), gltf, mesh_idx + 1)

\* what follows the loops of load_gltf_model, and its except clause
AfterMeshes(w) ==
    IF w.exc THEN Caught([w EXCEPT !.exc = FALSE], "gltf")
    ELSE IF w.meshes # << >> THEN scale_model(FirstAsMesh(w))
    ELSE w

\* load_gltf_model once the textures are loaded
LoadGltfMeshes(w, gltf) ==
    IF gltf.meshes = << >> THEN w
    ELSE AfterMeshes(LoadMeshes(w, gltf, 0))

load_gltf_model(w, path) ==
    IF ~Asset(path).parse_ok THEN Caught(w, "gltf")
    ELSE LoadGltfMeshes(load_gltf_textures(w, path), Asset(path))

\* ------------------------------------------------------------- load_model
\* self.update(): a repaint is requested
update(w) == [w EXCEPT !.update_pending = TRUE, !.calls = Append(@, "update")]

\* ---------------------------------------------------------- camera input
\* event.position() is a pair <<x, y>> of whole pixels; event.buttons() is
\* the set of the buttons held, out of "left" and "middle"

\* mousePressEvent: self.last_pos = event.position()
mousePressEvent(w, position) == [w EXCEPT !.camera.last_pos = Some(position)]

\* (a move handler that tests the two buttons independently)
mouseMoveEvent_each(w, position, buttons) ==
    IF w.camera.last_pos = NoneObj
    THEN [w EXCEPT !.camera.last_pos = Some(position)]
    ELSE LET dx == position[1] - w.camera.last_pos[1][1]
             dy == position[2] - w.camera.last_pos[1][2]
             w1 == IF "left" \in buttons
                   THEN update([w EXCEPT !.camera.rotation_y = @ + dx * 50,
                                         !.camera.rotation_x = @ + dy * 50])
                   ELSE w
             w2 == IF "middle" \in buttons
                   THEN update([w1 EXCEPT !.camera.translate_x = @ + dx,
                                          !.camera.translate_y = @ - dy])
                   ELSE w1
         IN [w2 EXCEPT !.camera.last_pos = Some(position)]

\* mouseMoveEvent: the first move only records the position; afterwards the
\* left button orbits by 0.5 per pixel, else the middle button pans by 0.01
\* per pixel, and the position is recorded
mouseMoveEvent(w, position, buttons) ==
    IF w.camera.last_pos = NoneObj
    THEN [w EXCEPT !.camera.last_pos = Some(position)]
    ELSE LET dx == position[1] - w.camera.last_pos[1][1]
             dy == position[2] - w.camera.last_pos[1][2]
             w1 == IF "left" \in buttons
                   THEN update([w EXCEPT !.camera.rotation_y = @ + dx * 50,
                                         !.camera.rotation_x = @ + dy * 50])
                   ELSE IF "middle" \in buttons
                   THEN update([w EXCEPT !.camera.translate_x = @ + dx,
                                         !.camera.translate_y = @ - dy])
                   ELSE w
         IN [w1 EXCEPT !.camera.last_pos = Some(position)]

\* wheelEvent: zoom += angleDelta().y() * 0.01
wheelEvent(w, delta) == update([w EXCEPT !.camera.zoom = @ + delta])

\* ------------------------------------------------------ print and events
\* QApplication.processEvents() inside a handler: Qt delivers the event
\* that was posted by the time the handler reached `point`, here a wheel
\* turn over the viewer, and then the paint event an update() has posted.
\* The frame is logged as "paint" among the steps of the handler.
processEvents(w, point) ==
    LET delivered == IF w.posted # NoneObj /\ w.posted[1].at = point
                     THEN wheelEvent(w, w.posted[1].delta) ELSE w
    IN IF delivered.update_pending
       THEN [delivered EXCEPT !.update_pending = FALSE, !.calls = Append(@, "paint")]
       ELSE delivered

\* print(...) at `point` of a handler: sys.stdout is the console, or the
\* splash window, whose write() appends the text and calls processEvents()
print(w, point) == IF w.stdout = "splash" THEN processEvents(w, point) ELSE w

\* the handler has reached a step of load_model: "clear" on the return of
\* clear_model_data, "reconcile" on that of apply_visibility_settings
Reached(w, step) == [w EXCEPT !.calls = Append(@, step)]

\* the non-GLTF branch of load_model
LoadTrimesh(w, path) ==
    LET t == Asset(path).trimesh
    IN IF t.load = "raise" THEN [w EXCEPT !.exc = TRUE]
       ELSE LET mesh == TrimeshOf(t.vertices, t.has_indices, t.faces, t.has_normals,
                                  t.has_uv, "none", <<0, 0>>)
                w1 == [w EXCEPT !.mesh = Some(mesh)]
                w2 == load_generic_textures(w1, t)
                w3 == create_vbos_for_part(w2, 0, mesh)
            IN scale_model(w3)

\* the branch on the file extension
LoadByExtension(w, path) ==
    IF IsGltfPath(path) THEN load_gltf_model(w, path) ELSE LoadTrimesh(w, path)

\* (an end of load_model that asks for the repaint before it reconciles)
LoadEpilogue_early(w, original_visibility, is_same_model) ==
    IF w.exc THEN Caught([w EXCEPT !.exc = FALSE], "load")
    ELSE Reached(apply_visibility_settings(update(w), original_visibility, is_same_model),
                 "reconcile")

\* the end of load_model: its except clause, or the visibility settings
\* and the repaint
LoadEpilogue(w, original_visibility, is_same_model) ==
    IF w.exc THEN Caught([w EXCEPT !.exc = FALSE], "load")
    ELSE update(print(Reached(apply_visibility_settings(w, original_visibility,
                                                        is_same_model),
                              "reconcile"),
                      "reconciled"))

\* load_model from the return of clear_model_data on
LoadAfterClear(w, path, original_visibility, is_same_model) ==
    IF w.exc THEN Caught([w EXCEPT !.exc = FALSE], "clear")
    ELSE LoadEpilogue(LoadByExtension(print([w EXCEPT !.model_path = path], "cleared"),
                                      path),
                      original_visibility, is_same_model)

\* load_model once "Loading model from" is printed
LoadFrom(w, path, gl_fault) ==
    IF ~Asset(path).exists THEN w
    ELSE LoadAfterClear(Reached(clear_model_data(w, gl_fault), "clear"), path,
                        w.part_visibility, path = w.model_path)

load_model(w, path, gl_fault) == LoadFrom(print(w, "start"), path, gl_fault)

\* ---------------------------------------------------------------- paintGL
\* the texture render_part_with_vbos / render_part_legacy binds for a part,
\* None when texturing is disabled
BoundTexture(w, part_id) ==
    LET texture_id == Get(w.material_map, part_id, None)
    IN IF texture_id # None /\ texture_id \in DOMAIN w.texture_ids
       THEN w.texture_ids[texture_id] ELSE None

\* the draw call render_part_with_vbos issues
render_part_with_vbos(w, part_id) ==
    [part |-> part_id, texture |-> BoundTexture(w, part_id),
     call |-> IF part_id \in DOMAIN w.index_buffers /\ w.index_buffers[part_id] # NoneObj
              THEN "glDrawElements" ELSE "glDrawArrays",
     count |-> Get(w.num_faces, part_id, 0) * 3]

\* the glBegin/glEnd block render_part_legacy issues
render_part_legacy(w, part_id, mesh) ==
    [part |-> part_id, texture |-> BoundTexture(w, part_id),
     call |-> "glBegin", count |-> Len(mesh.faces) * 3]

\* the loop over enumerate(self.meshes) of paintGL, from list index i on
RECURSIVE DrawParts(_, _)
DrawParts(w, i) ==
    IF i > Len(w.meshes) THEN << >>
    ELSE LET part_id == i - 1
         IN IF ~Get(w.part_visibility, part_id, TRUE) THEN DrawParts(w, i + 1)
            ELSE IF part_id \in DOMAIN w.vertex_vbos
            THEN <<render_part_with_vbos(w, part_id)>> \o DrawParts(w, i + 1)
            ELSE <<render_part_legacy(w, part_id, w.meshes[i])>> \o DrawParts(w, i + 1)

\* the draw calls of one frame
paintGL(w) ==
    IF w.meshes # << >> THEN DrawParts(w, 1)
    ELSE IF Get(w.vertex_vbos, 0, None) # None THEN <<render_part_with_vbos(w, 0)>>
    ELSE IF w.mesh # NoneObj THEN <<render_part_legacy(w, 0, w.mesh[1])>>
    ELSE << >>

\* ------------------------------------------------------------------- chat
\* The chat of the main window (AINA in main_ui.py) and its LLM widget
\* (llm.py) are one record.  QThread objects are slots 1 .. MaxThreads; a
\* slot is "free" until process_message creates a thread in it, "started"
\* until its worker has appended the user message, "posting" while the
\* request is out, "idle" once Worker.run has returned and the thread waits
\* in its event loop, "finished" once the thread has left it.  `exited` is
\* the thread's quit request.  `stale` marks what belongs to a message sent
\* before the last New Chat.  Strings are kept as their lengths, the
\* conversation history as its length, chat_history as the kinds of its
\* entries, and `timers` counts the QTimer objects that are running.

\* the most QThread objects alive at a time
MaxThreads == 2

\* the longest response
MaxResponse == 2

\* running timers are counted up to MaxTimers
MaxTimers == 2

Min(a, b) == IF a < b THEN a ELSE b

FreeThread == [state |-> "free", exited |-> FALSE, stale |-> FALSE]

\* AINA.__init__ and LLM.__init__
NewAina ==
    [thread |-> None, threads |-> [t \in 1 .. MaxThreads |-> FreeThread],
     queue |-> << >>, conversation_history |-> 0, max_history_length |-> 10,
     chat_history |-> {}, chat_input |-> [enabled |-> TRUE, text |-> FALSE],
     send_button |-> TRUE, current_response |-> 0, response_index |-> 0,
     chat_bubble |-> [text |-> 0, visible |-> FALSE, stale |-> FALSE],
     animation_timer |-> FALSE, timers |-> 0, sent |-> FALSE]

\* QThread.isRunning()
isRunning(thread) == thread.state \in {"started", "posting", "idle"}

\* a queued slot invocation in the main thread's event loop
Event(signal, t, response) == [signal |-> signal, thread |-> t, response |-> response]

\* a response string: its length, and whether it answers a message sent
\* before the last New Chat
Response(len, stale) == [len |-> len, stale |-> stale]

NoResponse == Response(0, FALSE)

\* LLM.process_message: t is the slot of the QThread it creates
process_message(c, t) ==
    IF c.thread # None /\ isRunning(c.threads[c.thread]) THEN c
    ELSE [c EXCEPT !.thread = t,
                   !.threads[t] = [state |-> "started", exited |-> FALSE, stale |-> FALSE]]

\* AINA.send_message
send_message(c, t) ==
    IF c.chat_input.text
    THEN process_message([c EXCEPT !.chat_input.enabled = FALSE,
                                   !.send_button = FALSE,
                                   !.sent = TRUE], t)
    ELSE c

\* the first part of LLM.process_message_threaded, in the worker thread:
\* the user message is appended and the history cut to its last
\* max_history_length entries
Asked(c, t) ==
    [c EXCEPT !.conversation_history = Min(@ + 1, c.max_history_length),
              !.threads[t].state = "posting"]

\* the rest of process_message_threaded and of Worker.run: on "ok" the
\* answer is appended; on "fail" (RequestException, JSONDecodeError) an
\* error text is returned; both emit finished(response); on "raise" any
\* other exception emits error(str(e)).  The slots connected to the signal
\* are queued in the main thread in the order they were connected.
Answered(c, t, outcome, len) ==
    [c EXCEPT !.conversation_history = IF outcome = "ok" THEN @ + 1 ELSE @,
              !.threads[t].state = "idle",
              !.queue = @ \o << Event(IF outcome = "raise" THEN "error" ELSE "finished", t,
                                      Response(len, c.threads[t].stale)),
                                Event("quit", t, NoResponse) >>]

\* the thread leaves its event loop after quit(): finished is emitted
Exited(c, t) ==
    [c EXCEPT !.threads[t].state = "finished",
              !.queue = Append(@, Event("thread_finished", t, NoResponse))]

\* AINA.process_message_response: the exchange is logged, the bubble is
\* emptied and shown, a new QTimer is started, the controls are enabled
process_message_response(c, response) ==
    [c EXCEPT !.chat_history = @ \cup {IF response.stale THEN "stale" ELSE "fresh"},
              !.current_response = response.len,
              !.response_index = 0,
              !.chat_input = [enabled |-> TRUE, text |-> FALSE],
              !.chat_bubble = [text |-> 0, visible |-> TRUE, stale |-> response.stale],
              !.animation_timer = TRUE,
              !.timers = Min(@ + 1, MaxTimers),
              !.send_button = TRUE]

\* AINA.stop_animation
stop_animation(c) ==
    [c EXCEPT !.timers = IF c.animation_timer THEN @ - 1 ELSE @,
              !.animation_timer = FALSE,
              !.current_response = 0,
              !.response_index = 0]

\* AINA.animate_text, the slot of every timer
animate_text(c) ==
    IF c.response_index < c.current_response
    THEN [c EXCEPT !.chat_bubble.text = c.response_index + 1,
                   !.response_index = @ + 1]
    ELSE stop_animation(c)

\* LLM.on_thread_finished, and the deleteLater of the thread that finished
on_thread_finished(c, t) ==
    [c EXCEPT !.thread = None, !.threads[t] = FreeThread]

\* the main thread runs the slot of a queued event
Delivered(c, event) ==
    CASE event.signal \in {"finished", "error"} ->
             process_message_response(c, event.response)
      [] event.signal = "quit" -> [c EXCEPT !.threads[event.thread].exited = TRUE]
      [] event.signal = "thread_finished" -> on_thread_finished(c, event.thread)

\* thread.quit(); thread.wait() on a running thread: the main thread
\* blocks while the worker runs to its end and the thread finishes
Joined(c, t, outcome, len) ==
    LET quit == [c EXCEPT !.threads[t].exited = TRUE]
    IN CASE c.threads[t].state = "started" ->
                Exited(Answered(Asked(quit, t), t, outcome, len), t)
         [] c.threads[t].state = "posting" -> Exited(Answered(quit, t, outcome, len), t)
         [] OTHER -> Exited(quit, t)

\* LLM.new_chat
new_chat(c) ==
    [c EXCEPT !.conversation_history = 0,
              !.chat_bubble = [text |-> 0, visible |-> FALSE, stale |-> FALSE],
              !.chat_input.text = FALSE]

\* what was sent before New Chat is stale from now on
Outdated(c) ==
    [c EXCEPT !.threads = [t \in DOMAIN @ |->
                              IF @[t].state = "free" THEN @[t]
                              ELSE [@[t] EXCEPT !.stale = TRUE]],
              !.queue = [k \in DOMAIN @ |-> [@[k] EXCEPT !.response.stale = TRUE]],
              !.sent = FALSE]

\* AINA.open_newchat
open_newchat(c, outcome, len) ==
    LET joined == IF c.thread # None /\ isRunning(c.threads[c.thread])
                  THEN Joined(c, c.thread, outcome, len) ELSE c
    IN [Outdated(new_chat(joined)) EXCEPT !.chat_history = {},
                                         !.chat_input.enabled = TRUE,
                                         !.send_button = TRUE]

\* ----------------------------------------------------------- video player
\* The VideoPlayer of the main window (video_player.py).  video_size is
\* video_item.size(), which the media player sets; scene_rect is what the
\* view shows.

Max(a, b) == IF a > b THEN a ELSE b

\* QRectF(x, y, width, height)
QRectF(x, y, width, height) == [x |-> x, y |-> y, width |-> width, height |-> height]

\* QRectF.isEmpty()
isEmpty(rect) == rect.width <= 0 \/ rect.height <= 0

\* VideoPlayer.__init__
NewVideoPlayer ==
    [crop_enabled |-> FALSE, crop_rect |-> QRectF(0, 0, 0, 0), pending_crop |-> NoneObj,
     video_initialized |-> FALSE, video_size |-> <<0, 0>>,
     scene_rect |-> QRectF(0, 0, 0, 0)]

\* VideoPlayer.apply_crop
apply_crop(v) ==
    IF ~v.crop_enabled \/ isEmpty(v.crop_rect) THEN v
    ELSE [v EXCEPT !.scene_rect = v.crop_rect]

\* VideoPlayer.enable_crop
enable_crop(v, enabled) ==
    LET set == [v EXCEPT !.crop_enabled = enabled]
    IN IF ~v.video_initialized THEN set
       ELSE IF enabled THEN apply_crop(set)
       ELSE [set EXCEPT !.scene_rect = QRectF(0, 0, v.video_size[1], v.video_size[2])]

\* VideoPlayer.set_crop
set_crop(v, x, y, width, height) ==
    IF ~v.video_initialized
    THEN [v EXCEPT !.pending_crop = Some(<<x, y, width, height>>)]
    ELSE LET W == v.video_size[1]
             H == v.video_size[2]
             cx == Max(0, Min(x, W))
             cy == Max(0, Min(y, H))
             cwidth == Max(10, Min(width, W - cx))
             cheight == Max(10, Min(height, H - cy))
             set == [v EXCEPT !.crop_rect = QRectF(cx, cy, cwidth, cheight)]
         IN IF v.crop_enabled THEN apply_crop(set) ELSE enable_crop(set, TRUE)

\* VideoPlayer.on_video_available
on_video_available(v) ==
    LET full == QRectF(0, 0, v.video_size[1], v.video_size[2])
        shown == [v EXCEPT !.crop_rect = full, !.scene_rect = full]
    IN IF v.pending_crop # NoneObj
       THEN LET p == v.pending_crop[1]
            IN [enable_crop(set_crop(shown, p[1], p[2], p[3], p[4]), TRUE)
                   EXCEPT !.pending_crop = NoneObj]
       ELSE IF v.crop_enabled THEN apply_crop(shown)
       ELSE shown

\* VideoPlayer.check_video_size, the slot of check_video_timer
check_video_size(v) ==
    IF ~v.video_initialized /\ v.video_size[1] > 0 /\ v.video_size[2] > 0
    THEN on_video_available([v EXCEPT !.video_initialized = TRUE])
    ELSE v

\* VideoPlayer.set_video: exists is os.path.exists(video_path)
set_video(v, exists) ==
    IF exists THEN [v EXCEPT !.video_initialized = FALSE] ELSE v

\* ------------------------------------------------------------ window drag
\* The frame of the main window (AINA in main_ui.py): its position and
\* size, the available geometry of the primary screen, and the drag state.
\* Points are pairs <<x, y>> of whole pixels.

\* AINA.__init__: the size and the position come from the configuration
NewWindow(screen, size, pos, allow_overflow) ==
    [pos |-> pos, size |-> size, screen |-> screen,
     config |-> [allow_overflow |-> allow_overflow],
     drag_area_size |-> 30, is_dragging |-> FALSE, old_pos |-> NoneObj,
     handled |-> "init"]

\* AINA.start_drag: no override cursor is ever set, so old_pos is
\* QCursor.pos()
start_drag(win, cursor) ==
    [win EXCEPT !.is_dragging = TRUE, !.old_pos = Some(cursor)]

\* (a mouseMoveEvent that does not keep the drag area on the screen)
aina_mouseMoveEvent_free(win, point) ==
    IF win.is_dragging /\ win.old_pos # NoneObj
    THEN LET moved == <<win.pos[1] + point[1] - win.old_pos[1][1],
                        win.pos[2] + point[2] - win.old_pos[1][2]>>
             kept == IF ~win.config.allow_overflow
                     THEN <<Max(0, Min(moved[1], win.screen[1] - win.size[1])),
                            Max(0, Min(moved[2], win.screen[2] - win.size[2]))>>
                     ELSE moved
         IN [win EXCEPT !.pos = kept, !.old_pos = Some(point)]
    ELSE win

\* AINA.mouseMoveEvent: point is event.globalPosition().toPoint()
aina_mouseMoveEvent(win, point) ==
    IF win.is_dragging /\ win.old_pos # NoneObj
    THEN LET moved == <<win.pos[1] + point[1] - win.old_pos[1][1],
                        win.pos[2] + point[2] - win.old_pos[1][2]>>
             kept == IF ~win.config.allow_overflow
                     THEN <<Max(0, Min(moved[1], win.screen[1] - win.size[1])),
                            Max(0, Min(moved[2], win.screen[2] - win.size[2]))>>
                     ELSE moved
             new_pos == <<Max(0, Min(kept[1], win.screen[1] - win.drag_area_size)),
                          Max(0, Min(kept[2], win.screen[2] - win.drag_area_size))>>
         IN [win EXCEPT !.pos = new_pos, !.old_pos = Some(point)]
    ELSE win

\* AINA.mouseReleaseEvent
aina_mouseReleaseEvent(win) ==
    [win EXCEPT !.is_dragging = FALSE, !.old_pos = NoneObj]

\* Settings.apply_resolution with whole numbers in its fields
apply_resolution(win, width, height, allow_overflow) ==
    [win EXCEPT !.config.allow_overflow = allow_overflow, !.size = <<width, height>>]

\* ------------------------------------------------------------------ state
VARIABLES
    viewer,          \* the fields of the ModelViewer instance
    gl,              \* the GL context: live handles, delete calls of the last handler
    gl_ready,        \* initializeGL has run
    update_pending,  \* update() was called and no frame was painted since
    last,            \* the last operation and how it ended
    camera,          \* the viewer's rotation_x/y, translate_x/y, zoom and last_pos
    stdout,          \* sys.stdout: "console", or "splash" while LoadingWindow is open
    chat,            \* the chat of the main window and its LLM widget
    video,           \* the video player of the main window
    window           \* the frame of the main window and its drag state

\* the main window where it is of no interest: 40 x 40 at the origin of a
\* 100 x 80 screen
HomeWindow == NewWindow(<<100, 80>>, <<40, 40>>, <<0, 0>>, FALSE)

\* the state outside the model viewer
shell == <<stdout, chat, video, window>>

\* the model viewer, its GL context and the files
model == <<viewer, gl, gl_ready, update_pending, last, disk, camera>>

vars == <<model, shell>>

\* the state the operators above work on: the viewer's fields, the GL
\* context, and the exception flags of the running handler
World ==
    [model_path |-> viewer.model_path, mesh |-> viewer.mesh, meshes |-> viewer.meshes,
     texture_ids |-> viewer.texture_ids, material_map |-> viewer.material_map,
     part_visibility |-> viewer.part_visibility, part_names |-> viewer.part_names,
     vertex_vbos |-> viewer.vertex_vbos, uv_vbos |-> viewer.uv_vbos,
     normal_vbos |-> viewer.normal_vbos, index_buffers |-> viewer.index_buffers,
     num_faces |-> viewer.num_faces,
     gl_live |-> gl.live, gl_deleted |-> EmptyDict, gl_pixels |-> gl.pixels,
     gl_arrays |-> gl.arrays,
     update_pending |-> update_pending, exc |-> FALSE, raised |-> "no",
     calls |-> << >>, camera |-> camera, stdout |-> stdout, posted |-> NoneObj]

ViewerOf(w) ==
    [model_path |-> w.model_path, mesh |-> w.mesh, meshes |-> w.meshes,
     texture_ids |-> w.texture_ids, material_map |-> w.material_map,
     part_visibility |-> w.part_visibility, part_names |-> w.part_names,
     vertex_vbos |-> w.vertex_vbos, uv_vbos |-> w.uv_vbos,
     normal_vbos |-> w.normal_vbos, index_buffers |-> w.index_buffers,
     num_faces |-> w.num_faces]

GlOf(w) == [live |-> w.gl_live, deleted |-> w.gl_deleted, pixels |-> w.gl_pixels,
            arrays |-> w.gl_arrays]

\* the state after the handler that ended in w
Result(w) ==
    /\ viewer' = ViewerOf(w)
    /\ gl' = GlOf(w)
    /\ update_pending' = w.update_pending
    /\ camera' = w.camera

\* the handles the viewer's texture and buffer maps hold
StoredHandles(v) ==
    {v.texture_ids[k] : k \in {x \in DOMAIN v.texture_ids : Truthy(v.texture_ids[x])}}
    \cup {v.vertex_vbos[k] : k \in {x \in DOMAIN v.vertex_vbos : v.vertex_vbos[x] # None}}
    \cup {v.uv_vbos[k] : k \in {x \in DOMAIN v.uv_vbos : v.uv_vbos[x] # None}}
    \cup {v.normal_vbos[k] : k \in {x \in DOMAIN v.normal_vbos : v.normal_vbos[x] # None}}

\* what `last` records of a load or a clear: its name, its path argument,
\* whether the path was the loaded one, which except clause an exception
\* reached ("no" for none), whether it is a clear right after a clear, of
\* the state it started from the number of parts, the Visibility Map and
\* the handles held, and the steps and update() calls of the handler in order
Op(name, path, w) ==
    [op |-> name, path |-> path, same |-> (path = viewer.model_path),
     raised |-> w.raised, repeat |-> (name = "clear" /\ last.op = "clear"),
     parts_before |-> Len(viewer.meshes),
     vis_before |-> viewer.part_visibility,
     held_before |-> StoredHandles(viewer),
     calls |-> w.calls]

\* a load or a clear that ended in w
Handled(name, path, w) == Result(w) /\ last' = Op(name, path, w)

\* what `last` records of the other operations
Minor(name) ==
    [op |-> name, path |-> viewer.model_path, same |-> TRUE, raised |-> "no",
     repeat |-> FALSE, parts_before |-> 0, vis_before |-> EmptyDict,
     held_before |-> {}]

\* ------------------------------------------------------------ constructor
\* a key of the part_visibility argument: a str (JSON object key) or an int
StrKey(text) == [type |-> "str", str |-> text, int |-> 0]
IntKey(n) == [type |-> "int", str |-> "", int |-> n]

\* int(k) for the keys a saved configuration can hold
IntOf(k) == IF k.type = "int" THEN k.int
            ELSE CASE k.str = "0" -> 0
                   [] k.str = "1" -> 1
                   [] k.str = "2" -> 2
                   [] k.str = "3" -> 3

\* the part_visibility arguments of the constructor: None or a saved map
\* from keys to booleans
Configs ==
    { [k \in {} |-> TRUE],
      [k \in {StrKey("0"), IntKey(3)} |-> (k = IntKey(3))] }

\* (a constructor that ignores its part_visibility argument)
IntKeyed_ignore(config) == EmptyDict

\* {int(k): v for k, v in (part_visibility or {}).items()}
IntKeyed(config) ==
    [i \in {IntOf(k) : k \in DOMAIN config} |->
        config[CHOOSE k \in DOMAIN config : IntOf(k) = i]]

\* ModelViewer.__init__(model_path, part_visibility)
NewViewer(model_path, part_visibility) ==
    [model_path |-> model_path, mesh |-> NoneObj, meshes |-> << >>,
     texture_ids |-> EmptyDict, material_map |-> EmptyDict,
     part_visibility |-> IntKeyed(part_visibility), part_names |-> EmptyDict,
     vertex_vbos |-> EmptyDict, uv_vbos |-> EmptyDict, normal_vbos |-> EmptyDict,
     index_buffers |-> EmptyDict, num_faces |-> EmptyDict]

\* the viewer after construction; `last` keeps the part_visibility argument
ViewerInit ==
    /\ \E model_path \in Paths, config \in Configs :
          /\ viewer = NewViewer(model_path, config)
          /\ last = [op |-> "init", path |-> model_path, same |-> TRUE,
                     raised |-> "no", repeat |-> FALSE, parts_before |-> 0,
                     vis_before |-> EmptyDict, held_before |-> {},
                     config |-> config]
    /\ gl = [live |-> {}, deleted |-> EmptyDict, pixels |-> EmptyDict,
             arrays |-> EmptyDict]
    /\ gl_ready = FALSE
    /\ update_pending = FALSE
    /\ camera = NewCamera
    /\ disk = [path \in Paths |-> Stored(path)]

\* the state after construction, print going to the console
Init ==
    /\ ViewerInit
    /\ stdout = "console"
    /\ chat = NewAina
    /\ video = NewVideoPlayer
    /\ window = HomeWindow

\* ---------------------------------------------------------------- actions
\* whether the GL context rejects glDeleteTextures during this call; it
\* can only do so when clear_model_data has a texture to delete
GlFaults ==
    IF \E k \in DOMAIN viewer.texture_ids : Truthy(viewer.texture_ids[k])
    THEN BOOLEAN ELSE {FALSE}

\* Qt creates the GL context and calls initializeGL once
InitializeGL ==
    /\ ~gl_ready
    /\ gl_ready' = TRUE
    /\ \E gl_fault \in GlFaults :
          Handled("load", viewer.model_path,
                  load_model(World, viewer.model_path, gl_fault))
    /\ UNCHANGED <<disk, shell>>

\* the shell asks for a model: load_model(path)
LoadModel ==
    /\ gl_ready
    /\ Cardinality(gl.live) <= MaxHandles
    /\ \E path \in Paths, gl_fault \in GlFaults :
          Handled("load", path, load_model(World, path, gl_fault))
    /\ UNCHANGED <<gl_ready, disk, shell>>

\* clear_model_data() called on its own
ClearModelData ==
    /\ gl_ready
    /\ Handled("clear", viewer.model_path, clear_model_data(World, FALSE))
    /\ UNCHANGED <<gl_ready, disk, shell>>

\* Customizer.on_item_changed: the shell sets one visibility flag
OnItemChanged ==
    /\ gl_ready
    /\ \E part_id \in 0 .. MaxToggleId, is_visible \in BOOLEAN :
          LET w == update([World EXCEPT !.part_visibility = Put(@, part_id, is_visible)])
          IN Result(w) /\ last' = Minor("toggle")
    /\ UNCHANGED <<gl_ready, disk, shell>>

\* Qt paints the frame update() asked for: the draw calls are paintGL(World)
PaintGL ==
    /\ gl_ready
    /\ update_pending
    /\ update_pending' = FALSE
    /\ last' = Minor("paint")
    /\ UNCHANGED <<viewer, gl, gl_ready, disk, camera, shell>>

Next ==
    \/ InitializeGL
    \/ LoadModel
    \/ ClearModelData
    \/ OnItemChanged
    \/ PaintGL

Spec == Init /\ [][Next]_vars

\* ------------------------------------------------- accessor decoder alone
\* A second specification applies one iteration of load_gltf_model's loop
\* to an asset with a single primitive, for every layout of one accessor
\* (the subject) out of a bounded set.

\* signed 32-bit integers: a componentType glTF does not define
INT == 5124

\* components per element of each attribute
Cols(kind) == CASE kind = "POSITION" -> 3
                [] kind = "NORMAL" -> 3
                [] kind = "TEXCOORD_0" -> 2
                [] kind = "indices" -> 1

\* byte i of a test buffer holds i
TestBytes(n) == [i \in 1 .. n |-> i - 1]

\* three FLOAT positions in a bufferView of their own at the start of the buffer
PlainPositions == [view |-> [byteOffset |-> 0, byteLength |-> 36, byteStride |-> None],
                   accessor |-> [bufferView |-> 0, byteOffset |-> 0,
                                 componentType |-> FLOAT, count |-> 3]]

\* the bytes of the subject accessor's own elements: from its first byte
\* to the last byte of its last element
OwnBytes(kind, componentType, count, stride) ==
    LET elem == Cols(kind) * ComponentSize(componentType)
    IN IF stride = None THEN count * elem ELSE (count - 1) * stride + elem

\* an asset with one mesh of one primitive.  The subject accessor is
\* accessor 1 in bufferView 1, which starts after the plain positions; it
\* starts byte_offset bytes into the view, the view has `extra` bytes after
\* the accessor's own, and the buffer file lacks its last `lacking` bytes.
TestAsset(kind, componentType, count, byte_offset, extra, stride, lacking) ==
    LET length == byte_offset + OwnBytes(kind, componentType, count, stride) + extra
        subject == 1
    IN [exists |-> TRUE, parse_ok |-> TRUE, has_buffers |-> TRUE,
        buffer_uri_none |-> FALSE, buffer_exists |-> TRUE, blob_ok |-> FALSE,
        buffer_data |-> TestBytes(36 + length - lacking),
        bufferViews |-> << PlainPositions.view,
                           [byteOffset |-> 36, byteLength |-> length, byteStride |-> stride] >>,
        accessors |-> << PlainPositions.accessor,
                         [bufferView |-> 1, byteOffset |-> byte_offset,
                          componentType |-> componentType, count |-> count] >>,
        meshes |-> << GltfMesh("", << Primitive(
                         None,
                         IF kind = "POSITION" THEN subject ELSE 0,
                         IF kind = "NORMAL" THEN subject ELSE None,
                         IF kind = "TEXCOORD_0" THEN subject ELSE None,
                         IF kind = "indices" THEN subject ELSE None,
                         "none") >>) >>,
        images |-> << >>, exported |-> << >>, trimesh |-> NoTrimesh]

Kinds == {"POSITION", "NORMAL", "TEXCOORD_0", "indices"}
ComponentTypes == {FLOAT, UNSIGNED_SHORT, UNSIGNED_INT, INT}

\* element counts: MaxCount - 1 or MaxCount rows, three times as many indices
Counts(kind) == IF kind = "indices" THEN {3 * (MaxCount - 1), 3 * MaxCount}
                ELSE {MaxCount - 1, MaxCount}

\* the bytes a layout is shifted, shared or interleaved by: one element, for
\* indices one triangle
Unit(kind, componentType) ==
    (IF kind = "indices" THEN 3 ELSE Cols(kind)) * ComponentSize(componentType)

\* shared: other data follows the accessor in its bufferView; skewed: the
\* accessor starts one unit into the bufferView; interleaved: the stride
\* is 4 bytes more than the element (vertex attributes only); lacking: the
\* components missing at the end of the buffer file
DecodeInit ==
    /\ \E kind \in Kinds, componentType \in ComponentTypes :
       \E count \in Counts(kind), shared \in BOOLEAN, skewed \in BOOLEAN,
          interleaved \in (IF kind = "indices" THEN {FALSE} ELSE BOOLEAN),
          lacking \in {0, 1, 3} :
          last = [op |-> "asset", kind |-> kind,
                  gltf |-> TestAsset(kind, componentType, count,
                                     IF skewed THEN Unit(kind, componentType) ELSE 0,
                                     IF shared THEN Unit(kind, componentType) ELSE 0,
                                     IF interleaved
                                     THEN Cols(kind) * ComponentSize(componentType) + 4
                                     ELSE None,
                                     lacking * ComponentSize(componentType))]
    /\ viewer = NewViewer(PA, [k \in {} |-> TRUE])
    /\ gl = [live |-> {}, deleted |-> EmptyDict, pixels |-> EmptyDict,
             arrays |-> EmptyDict]
    /\ gl_ready = TRUE
    /\ update_pending = FALSE
    /\ camera = NewCamera
    /\ stdout = "console"
    /\ chat = NewAina
    /\ video = NewVideoPlayer
    /\ window = HomeWindow
    /\ disk = [path \in {PA} |-> Exported(FileMissing)]

\* one iteration of the loop of load_gltf_model on the asset's primitive
ExtractPrimitive ==
    /\ last.op = "asset"
    /\ LET w == LoadPrimitive(World, last.gltf, 0, 0)
       IN Result(w)
    /\ last' = [last EXCEPT !.op = "extracted"]
    /\ UNCHANGED <<gl_ready, disk, shell>>

DecodeNext == ExtractPrimitive

DecodeSpec == DecodeInit /\ [][DecodeNext]_vars

\* ------------------------------------------------- scene normalizer alone
\* A further specification loads one glTF asset of one mesh, for every
\* scene of one or two primitives of three vertices each, every vertex
\* drawn from two points.  Scenes whose vertices all coincide have a
\* bounding box of extent zero on every axis.

Points == { <<1, 1, 1>>, <<1, 2, 1>> }

Triangles == [1 .. 3 -> Points]

\* the most primitives a scene has
MaxParts == 2

Scenes == UNION {[1 .. n -> Triangles] : n \in 1 .. MaxParts}

\* the asset of a scene: positions only, buffer file present, no images
SceneFile(scene) ==
    [exists |-> TRUE, parse_ok |-> TRUE, has_buffers |-> TRUE,
     buffer_uri_none |-> FALSE, buffer_exists |-> TRUE, blob_ok |-> FALSE,
     meshes |-> << GltfMesh("", [i \in DOMAIN scene |->
                                   Prim(None, TRUE, scene[i], FALSE, << >>,
                                        FALSE, FALSE, "none")]) >>,
     images |-> << >>, materials |-> << >>, textures |-> << >>,
     exported |-> << >>, trimesh |-> NoTrimesh]

ScaleInit ==
    /\ \E scene \in Scenes :
          /\ last = [op |-> "scene", scene |-> scene]
          /\ disk = [path \in {PA} |-> Exported(SceneFile(scene))]
    /\ viewer = NewViewer(PA, [k \in {} |-> TRUE])
    /\ gl = [live |-> {}, deleted |-> EmptyDict, pixels |-> EmptyDict,
             arrays |-> EmptyDict]
    /\ gl_ready = TRUE
    /\ update_pending = FALSE
    /\ camera = NewCamera
    /\ stdout = "console"
    /\ chat = NewAina
    /\ video = NewVideoPlayer
    /\ window = HomeWindow

\* load_model on the scene's asset, which ends in scale_model
LoadScene ==
    /\ last.op = "scene"
    /\ Result(load_model(World, PA, FALSE))
    /\ last' = [last EXCEPT !.op = "loaded"]
    /\ UNCHANGED <<gl_ready, disk, shell>>

ScaleNext == LoadScene

ScaleSpec == ScaleInit /\ [][ScaleNext]_vars
\* A third specification lets the pointer and the wheel act on a viewer
\* that loads models in between.

\* the pointer positions an event may report
Positions == {<<0, 0>>, <<2, 1>>}

\* every combination of the two buttons
ButtonSets == SUBSET {"left", "middle"}

\* angleDelta().y() of one wheel notch, either way
WheelDeltas == {-120, 120}

\* how far the camera may travel from its initial place: pixels of drag
\* and wheel notches
MaxDrag == 2
MaxNotches == 1

Dist(a, b) == IF a < b THEN b - a ELSE a - b

InReach(c) ==
    /\ Dist(c.rotation_x, NewCamera.rotation_x) <= MaxDrag * 50
    /\ Dist(c.rotation_y, NewCamera.rotation_y) <= MaxDrag * 50
    /\ Dist(c.translate_x, NewCamera.translate_x) <= MaxDrag
    /\ Dist(c.translate_y, NewCamera.translate_y) <= MaxDrag
    /\ Dist(c.zoom, NewCamera.zoom) <= MaxNotches * 120

\* what `last` records of an input event: its name and its arguments
Input(name, position, buttons, delta) ==
    [op |-> name, position |-> position, buttons |-> buttons, delta |-> delta]

\* Qt delivers a button press
MousePressEvent ==
    /\ gl_ready
    /\ \E position \in Positions :
          /\ Result(mousePressEvent(World, position))
          /\ last' = Input("press", position, {}, 0)
    /\ UNCHANGED <<gl_ready, disk, shell>>

\* Qt delivers a pointer move with the buttons held
MouseMoveEvent ==
    /\ gl_ready
    /\ \E position \in Positions, buttons \in ButtonSets :
          /\ InReach(mouseMoveEvent(World, position, buttons).camera)
          /\ Result(mouseMoveEvent(World, position, buttons))
          /\ last' = Input("move", position, buttons, 0)
    /\ UNCHANGED <<gl_ready, disk, shell>>

\* Qt delivers a wheel turn
WheelEvent ==
    /\ gl_ready
    /\ \E delta \in WheelDeltas :
          /\ InReach(wheelEvent(World, delta).camera)
          /\ Result(wheelEvent(World, delta))
          /\ last' = Input("wheel", {}, {}, delta)
    /\ UNCHANGED <<gl_ready, disk, shell>>

\* the shell asks for a model while the viewer holds every live handle
LoadModelTidy ==
    /\ gl.live \subseteq StoredHandles(viewer)
    /\ LoadModel

CameraNext ==
    \/ InitializeGL
    \/ LoadModelTidy
    \/ MousePressEvent
    \/ MouseMoveEvent
    \/ WheelEvent

CameraSpec == Init /\ [][CameraNext]_vars

\* ------------------------------------------------- loads behind the splash
\* A further specification runs the viewer while LoadingWindow is open, so
\* that every print of a handler reaches LoadingWindow.write.

\* LoadingWindow.__init__ has run: sys.stdout = self
SplashInit ==
    /\ ViewerInit
    /\ stdout = "splash"
    /\ chat = NewAina
    /\ video = NewVideoPlayer
    /\ window = HomeWindow

\* the prints of load_model by which an event may have been posted: the
\* first one, the one after clear_model_data, the one after
\* apply_visibility_settings
PrintPoints == {"start", "cleared", "reconciled"}

\* the shell asks for a model while the user turns the wheel over the viewer
LoadModelPosted ==
    /\ gl_ready
    /\ gl.live \subseteq StoredHandles(viewer)
    /\ \E path \in Paths, gl_fault \in GlFaults, point \in PrintPoints,
          delta \in WheelDeltas :
          Handled("load", path,
                  load_model([World EXCEPT !.posted = Some([at |-> point, delta |-> delta])],
                             path, gl_fault))
    /\ InReach(camera')
    /\ UNCHANGED <<gl_ready, disk, shell>>

\* LoadingWindow.closeEvent: sys.stdout = self.stdout
CloseSplash ==
    /\ stdout = "splash"
    /\ stdout' = "console"
    /\ UNCHANGED <<model, chat, video, window>>

SplashNext ==
    \/ InitializeGL
    \/ LoadModelPosted
    \/ PaintGL
    \/ CloseSplash

SplashSpec == SplashInit /\ [][SplashNext]_vars

\* --------------------------------------------------------------- chat alone
\* The main thread runs one handler at a time: a user's action or the head
\* of its queue of posted events.  Qt does not order the user's native
\* events against posted ones, so a user's action can come at any time.
\* The worker threads run beside it.

Outcomes == {"ok", "fail", "raise"}

\* the lengths of the responses
Lengths == {MaxResponse}

\* the user sends no further message once the conversation history holds
\* MaxHistory entries
MaxHistory == 2

\* the slot of the next QThread object
FreeSlots(c) == {t \in DOMAIN c.threads : c.threads[t].state = "free"}

\* the user types a message into the chat input
TypeText ==
    /\ chat.chat_input.enabled
    /\ chat' = [chat EXCEPT !.chat_input.text = TRUE]
    /\ UNCHANGED <<model, stdout, video, window>>

\* Return in the chat input, or a click on the send button
SendMessage ==
    /\ chat.chat_input.enabled \/ chat.send_button
    /\ chat.conversation_history < MaxHistory
    /\ \E t \in 1 .. MaxThreads :
          /\ IF FreeSlots(chat) = {} THEN process_message(chat, t) = chat
             ELSE \A u \in FreeSlots(chat) : t <= u
          /\ IF FreeSlots(chat) = {} THEN t = 1 ELSE t \in FreeSlots(chat)
          /\ chat' = send_message(chat, t)
    /\ UNCHANGED <<model, stdout, video, window>>

\* the worker of thread t appends the user message and sends the request
WorkerAsk ==
    /\ \E t \in 1 .. MaxThreads :
          /\ chat.threads[t].state = "started"
          /\ chat' = Asked(chat, t)
    /\ UNCHANGED <<model, stdout, video, window>>

\* the request of thread t ends and Worker.run emits its signal
WorkerAnswer ==
    /\ \E t \in 1 .. MaxThreads, outcome \in Outcomes, len \in Lengths :
          /\ chat.threads[t].state = "posting"
          /\ chat' = Answered(chat, t, outcome, len)
    /\ UNCHANGED <<model, stdout, video, window>>

\* thread t, told to quit, leaves its event loop
ThreadExit ==
    /\ \E t \in 1 .. MaxThreads :
          /\ chat.threads[t].state = "idle"
          /\ chat.threads[t].exited
          /\ chat' = Exited(chat, t)
    /\ UNCHANGED <<model, stdout, video, window>>

\* the main thread's event loop delivers the oldest posted event
Deliver ==
    /\ chat.queue # << >>
    /\ chat' = Delivered([chat EXCEPT !.queue = Tail(@)], Head(chat.queue))
    /\ UNCHANGED <<model, stdout, video, window>>

\* a running timer fires
AnimateText ==
    /\ chat.timers > 0
    /\ chat' = animate_text(chat)
    /\ UNCHANGED <<model, stdout, video, window>>

\* a click on the New Chat button
OpenNewChat ==
    /\ \E outcome \in Outcomes, len \in Lengths :
          chat' = open_newchat(chat, outcome, len)
    /\ \E exists \in BOOLEAN : video' = set_video(video, exists)
    /\ UNCHANGED <<model, stdout, window>>

ChatNext ==
    \/ TypeText
    \/ SendMessage
    \/ WorkerAsk
    \/ WorkerAnswer
    \/ ThreadExit
    \/ Deliver
    \/ AnimateText
    \/ OpenNewChat

\* the main window after construction, with any one viewer
ChatInit ==
    /\ Init
    /\ viewer.model_path = PA
    /\ last.config = EmptyDict

ChatSpec == ChatInit /\ [][ChatNext]_vars

\* The worker threads and the main thread's event loop are scheduled
\* fairly: a worker step that stays possible is taken, a posted event is
\* delivered, a running timer fires.  Nothing obliges the user to act.
ChatFairness ==
    /\ WF_vars(WorkerAsk)
    /\ WF_vars(WorkerAnswer)
    /\ WF_vars(ThreadExit)
    /\ WF_vars(Deliver)
    /\ WF_vars(AnimateText)

ChatLive == ChatInit /\ [][ChatNext]_vars /\ ChatFairness

\* ------------------------------------------------ conversation history alone
\* process_message_threaded on a history of every length the limit allows:
\* the window as it is after some exchanges with the history at n entries,
\* the next message just sent.

\* the chat at rest after exchanges that left n entries in the history
Conversed(n) ==
    IF n = 0 THEN NewAina
    ELSE [NewAina EXCEPT !.conversation_history = n,
                         !.chat_history = {"fresh"},
                         !.chat_bubble = [text |-> MaxResponse, visible |-> TRUE,
                                          stale |-> FALSE]]

HistoryInit ==
    /\ ViewerInit
    /\ viewer.model_path = PA
    /\ last.config = EmptyDict
    /\ stdout = "console"
    /\ video = NewVideoPlayer
    /\ window = HomeWindow
    /\ \E n \in 0 .. NewAina.max_history_length :
          chat = send_message([Conversed(n) EXCEPT !.sent = TRUE,
                                                   !.chat_input.text = TRUE], 1)

HistoryNext ==
    \/ WorkerAsk
    \/ WorkerAnswer
    \/ ThreadExit
    \/ Deliver
    \/ AnimateText

HistorySpec == HistoryInit /\ [][HistoryNext]_vars

\* ------------------------------------------------------- video player alone
\* The media player reports the size of a video that is loading; the
\* check timer, set_crop, enable_crop and set_video come in any order.

Sizes == {<<20, 20>>, <<30, 20>>}

\* the x and y, and the width and height, that set_crop is called with
Origins == {-5, 20}

Extents == {5, 40}

\* video_item takes the native size of the video being loaded
VideoSized ==
    /\ ~video.video_initialized
    /\ \E size \in Sizes : video' = [video EXCEPT !.video_size = size]
    /\ UNCHANGED <<model, stdout, chat, window>>

CheckVideoSize ==
    /\ video' = check_video_size(video)
    /\ UNCHANGED <<model, stdout, chat, window>>

SetCrop ==
    /\ \E x, y \in Origins, width, height \in Extents :
          video' = set_crop(video, x, y, width, height)
    /\ UNCHANGED <<model, stdout, chat, window>>

EnableCrop ==
    /\ \E enabled \in BOOLEAN : video' = enable_crop(video, enabled)
    /\ UNCHANGED <<model, stdout, chat, window>>

SetVideo ==
    /\ \E exists \in BOOLEAN : video' = set_video(video, exists)
    /\ UNCHANGED <<model, stdout, chat, window>>

CropNext ==
    \/ VideoSized
    \/ CheckVideoSize
    \/ SetCrop
    \/ EnableCrop
    \/ SetVideo

CropSpec == ChatInit /\ [][CropNext]_vars

\* -------------------------------------------------------- window drag alone
\* The window is created on a screen with a size and a position from its
\* configuration; the drag button is pressed, the mouse moves and is
\* released, and the settings dialog changes size and overflow.

Screens == {<<100, 80>>, <<20, 20>>}

WindowSizes == {<<40, 40>>, <<120, 40>>}

\* where the cursor is when an event arrives
CursorPoints == {<<0, 0>>, <<90, 30>>, <<-40, 70>>}

DragInit ==
    /\ ViewerInit
    /\ viewer.model_path = PA
    /\ last.config = EmptyDict
    /\ stdout = "console"
    /\ chat = NewAina
    /\ video = NewVideoPlayer
    /\ \E screen \in Screens, size \in WindowSizes, allow_overflow \in BOOLEAN :
          window = NewWindow(screen, size, <<0, 0>>, allow_overflow)

StartDrag ==
    /\ \E cursor \in CursorPoints :
          window' = [start_drag(window, cursor) EXCEPT !.handled = "start_drag"]
    /\ UNCHANGED <<model, stdout, chat, video>>

AinaMouseMoveEvent ==
    /\ \E point \in CursorPoints :
          window' = [aina_mouseMoveEvent(window, point) EXCEPT !.handled = "mouseMoveEvent"]
    /\ UNCHANGED <<model, stdout, chat, video>>

AinaMouseReleaseEvent ==
    /\ window' = [aina_mouseReleaseEvent(window) EXCEPT !.handled = "mouseReleaseEvent"]
    /\ UNCHANGED <<model, stdout, chat, video>>

ApplyResolution ==
    /\ \E size \in WindowSizes, allow_overflow \in BOOLEAN :
          window' = [apply_resolution(window, size[1], size[2], allow_overflow)
                        EXCEPT !.handled = "apply_resolution"]
    /\ UNCHANGED <<model, stdout, chat, video>>

DragNext ==
    \/ StartDrag
    \/ AinaMouseMoveEvent
    \/ AinaMouseReleaseEvent
    \/ ApplyResolution

DragSpec == DragInit /\ [][DragNext]_vars

\* ================================================================= claims
\* the ids of the Part list: set(range(len(self.meshes)))
PartIds(v) == RangeLen(v.meshes)

\* the last operation was a load_model call that found its file
LoadedExisting == last.op = "load" /\ Asset(last.path).exists

\* ... and ran through apply_visibility_settings and update()
LoadCompleted == LoadedExisting /\ last.raised \notin {"clear", "load"}

\* ids that were parts before the last load and are parts after it
PartsOfBothLoads == 0 .. ((IF last.parts_before <= Len(viewer.meshes)
                           THEN last.parts_before ELSE Len(viewer.meshes)) - 1)

\* C1: reloading the loaded path keeps the Visibility Map's value (true
\* when it had none) of every part id present before and after the reload.
C1_ReloadRoundTrip ==
    (last.op = "load" /\ last.same) =>
        \A id \in PartsOfBothLoads :
            Get(viewer.part_visibility, id, TRUE) = Get(last.vis_before, id, TRUE)

\* a reload of the same path after which a part of both loads is still hidden
C1_Witness ==
    /\ LoadCompleted /\ last.same /\ last.raised = "no"
    /\ \E id \in PartsOfBothLoads :
          /\ id \in DOMAIN last.vis_before /\ ~last.vis_before[id]
          /\ ~viewer.part_visibility[id]

\* C2 (as claimed): after a load of a path other than the loaded one, every
\* part id of the new model is visible.
C2_NewModelAllVisible ==
    (last.op = "load" /\ ~last.same) =>
        \A id \in PartIds(viewer) : Get(viewer.part_visibility, id, TRUE)

\* the viewer is EMPTY: no parts, no mesh, no per-part buffers
IsEmpty(v) ==
    /\ v.mesh = NoneObj /\ v.meshes = << >>
    /\ DOMAIN v.vertex_vbos = {} /\ DOMAIN v.normal_vbos = {}
    /\ DOMAIN v.uv_vbos = {} /\ DOMAIN v.index_buffers = {}

\* C3 (as claimed): a load during which an exception reached an except
\* clause of load_gltf_model or load_model leaves the viewer EMPTY.
C3_FailedLoadLeavesEmpty ==
    (last.op = "load" /\ last.raised # "no") => IsEmpty(viewer)

\* C4 (as claimed): the handles that are allocated and not deleted are
\* exactly the handles held in the texture and buffer maps.
C4_NoHandleLeaked == gl.live = StoredHandles(viewer)

\* C5 (as claimed): every other per-part map has its keys among the keys
\* of the vertex buffer map.
C5_KeyspaceInvariant ==
    /\ DOMAIN viewer.normal_vbos \subseteq DOMAIN viewer.vertex_vbos
    /\ DOMAIN viewer.uv_vbos \subseteq DOMAIN viewer.vertex_vbos
    /\ DOMAIN viewer.index_buffers \subseteq DOMAIN viewer.vertex_vbos
    /\ DOMAIN viewer.num_faces \subseteq DOMAIN viewer.vertex_vbos
    /\ DOMAIN viewer.part_names \subseteq DOMAIN viewer.vertex_vbos
    /\ DOMAIN viewer.material_map \subseteq DOMAIN viewer.vertex_vbos

MapsEmpty(v) ==
    /\ DOMAIN v.texture_ids = {} /\ DOMAIN v.material_map = {}
    /\ DOMAIN v.vertex_vbos = {} /\ DOMAIN v.uv_vbos = {}
    /\ DOMAIN v.normal_vbos = {} /\ DOMAIN v.index_buffers = {}
    /\ DOMAIN v.num_faces = {} /\ DOMAIN v.part_names = {}

\* C7: after clear_model_data the texture, buffer, index, face-count,
\* material and name maps are empty and every handle they held was deleted
\* exactly once, by a clear on its own and by the clear of a load alike.
C7_ClearDeletesOnce ==
    /\ last.op = "clear" =>
          /\ MapsEmpty(viewer)
          /\ \A h \in last.held_before : Get(gl.deleted, h, 0) = 1 /\ h \notin gl.live
    /\ (LoadedExisting /\ last.raised # "clear") =>
          \A h \in last.held_before : Get(gl.deleted, h, 0) = 1

\* a clear that started with a texture and several buffers
C7_Witness ==
    /\ last.op = "clear" /\ Cardinality(last.held_before) >= 4
    /\ MapsEmpty(viewer) /\ DOMAIN gl.deleted = last.held_before

\* C8: a clear_model_data on a viewer that holds no handle deletes nothing
\* and raises nothing, and a clear right after a clear changes neither the
\* viewer nor the live handles and deletes nothing.
C8_ClearIdempotent ==
    [][last'.op = "clear" =>
          /\ StoredHandles(viewer) = {} =>
                (gl'.deleted = EmptyDict /\ gl'.live = gl.live /\ last'.raised = "no")
          /\ last.op = "clear" =>
                (viewer' = viewer /\ gl'.live = gl.live /\ gl'.deleted = EmptyDict)]_vars

\* a clear right after a clear: nothing held, nothing deleted
C8_Witness ==
    /\ last.op = "clear" /\ last.repeat
    /\ last.held_before = {} /\ gl.deleted = EmptyDict /\ MapsEmpty(viewer)

\* the primitives of a glTF asset in mesh-then-primitive order, up to the
\* first malformed mesh
RECURSIVE Traversal(_, _)
Traversal(gltf, mesh_idx) ==
    IF mesh_idx >= Len(gltf.meshes) \/ gltf.meshes[mesh_idx + 1].primitives_none
    THEN << >>
    ELSE [p \in 1 .. Len(gltf.meshes[mesh_idx + 1].primitives) |-> <<mesh_idx, p - 1>>]
         \o Traversal(gltf, mesh_idx + 1)

\* the primitives of the traversal that yield a mesh
LoadablePrims(gltf) ==
    IF ~gltf.parse_ok THEN << >>
    ELSE LET Yields(src) ==
                 extract_primitive_mesh(
                     gltf, gltf.meshes[src[1] + 1].primitives[src[2] + 1], src) # NoneObj
         IN SelectSeq(Traversal(gltf, 0), Yields)

\* C9: after a load of a glTF asset the part ids are 0..N-1 and part i is
\* built from the i-th loadable primitive in mesh-then-primitive order, a
\* function of the asset alone.
C9_DensePartIds ==
    (LoadedExisting /\ IsGltfPath(last.path) /\ last.raised # "clear") =>
        LET N == Len(viewer.meshes)
        IN /\ DOMAIN viewer.part_names = 0 .. (N - 1)
           /\ DOMAIN viewer.vertex_vbos = 0 .. (N - 1)
           /\ [i \in 1 .. N |-> viewer.meshes[i].src] = LoadablePrims(Asset(last.path))

\* a second load of an asset with a skipped primitive in the middle: the
\* primitive after it has the id the skipped one would have had, both times
C9_Witness ==
    /\ LoadCompleted /\ last.same /\ last.parts_before = 2
    /\ Len(viewer.meshes) = 2 /\ viewer.meshes[2].src = <<0, 2>>
    /\ DOMAIN viewer.part_names = {0, 1}

\* C10: after a completed load the keys of the Visibility Map are exactly
\* the part ids of the loaded model.
C10_VisibilityKeysAreParts ==
    LoadCompleted => DOMAIN viewer.part_visibility = PartIds(viewer)

\* a completed load that dropped an id of the previous map and has parts
C10_Witness ==
    /\ LoadCompleted /\ viewer.meshes # << >>
    /\ \E k \in DOMAIN last.vis_before : k \notin PartIds(viewer)
    /\ DOMAIN viewer.part_visibility = PartIds(viewer)

\* C11: the first load (initializeGL) gives every part id of the loaded
\* model the value the constructor's map had for it, and true when the map
\* had none.
C11_ConfigHonoured ==
    [][(last.op = "init" /\ last'.op = "load") =>
          LET config == last.config
              Supplied(id) ==
                  IF \E k \in DOMAIN config : IntOf(k) = id
                  THEN config[CHOOSE k \in DOMAIN config : IntOf(k) = id]
                  ELSE TRUE
          IN \A id \in PartIds(viewer') :
                 /\ id \in DOMAIN viewer'.part_visibility
                 /\ viewer'.part_visibility[id] = Supplied(id)]_vars

\* a first load with a supplied map {"0": false, 3: true} of a model with
\* parts 0 and 1: part 0 is hidden, part 1 is visible
C11_Witness ==
    /\ LoadCompleted /\ last.same /\ last.vis_before = IntKeyed(
           [k \in {StrKey("0"), IntKey(3)} |-> (k = IntKey(3))])
    /\ PartIds(viewer) = {0, 1}
    /\ ~viewer.part_visibility[0] /\ viewer.part_visibility[1]

\* a glTF asset whose buffer is an external file that does not exist
MissingBuffer(gltf) ==
    /\ gltf.exists /\ gltf.parse_ok /\ gltf.has_buffers
    /\ ~gltf.buffer_uri_none /\ ~gltf.buffer_exists

\* the last operation was a load of such an asset whose clear_model_data
\* ran to its end
MissingBufferLoad ==
    /\ last.op = "load" /\ IsGltfPath(last.path)
    /\ MissingBuffer(Asset(last.path)) /\ last.raised # "clear"

\* C12: a load of an asset whose external buffer file is missing leaves no
\* part, no mesh and no per-part buffer, and no exception reaches an except
\* clause of load_gltf_model or load_model.
C12_MissingBufferNoParts ==
    MissingBufferLoad => (IsEmpty(viewer) /\ last.raised = "no")

\* such a load on a viewer that had parts
C12_Witness ==
    /\ MissingBufferLoad /\ last.parts_before > 0
    /\ viewer.meshes = << >> /\ DOMAIN viewer.vertex_vbos = {}

\* C13 (as claimed): a load of an asset whose external buffer file is
\* missing leaves the Visibility Map as it was before the load.
C13_MissingBufferKeepsVisibility ==
    MissingBufferLoad => viewer.part_visibility = last.vis_before

\* C14 (as claimed): after load_model of a path that does not exist the
\* viewer is EMPTY, holds no handle and draws nothing.
C14_MissingPathClears ==
    (last.op = "load" /\ ~Asset(last.path).exists) =>
        /\ IsEmpty(viewer)
        /\ StoredHandles(viewer) = {}
        /\ paintGL(World) = << >>

\* the asset's buffer can be read: lines 343-363 return no None
Readable(gltf) ==
    /\ gltf.has_buffers
    /\ gltf.buffer_uri_none => gltf.blob_ok
    /\ ~gltf.buffer_uri_none => gltf.buffer_exists

\* every primitive of every well-formed mesh of the asset
AllPrimitives(gltf) ==
    UNION {{<<mesh_idx, prim_idx>> :
               prim_idx \in 0 .. (Len(gltf.meshes[mesh_idx + 1].primitives) - 1)} :
           mesh_idx \in {m \in 0 .. (Len(gltf.meshes) - 1) :
                            ~gltf.meshes[m + 1].primitives_none}}

\* the primitive has positions and each attribute it names decodes
Decodes(gltf, src) ==
    LET primitive == gltf.meshes[src[1] + 1].primitives[src[2] + 1]
        data == gltf.buffer_data
    IN /\ Readable(gltf)
       /\ primitive.POSITION # None
       /\ DecodePositions(gltf, data, primitive.POSITION) # NoneObj
       /\ primitive.indices # None => DecodeFaces(gltf, data, primitive.indices) # NoneObj
       /\ primitive.NORMAL # None => DecodeNormals(gltf, data, primitive.NORMAL) # NoneObj
       /\ primitive.TEXCOORD_0 # None => DecodeUv(gltf, data, primitive.TEXCOORD_0) # NoneObj

\* C15: after a load of a glTF asset the parts are built from exactly the
\* primitives that have positions and decode, whatever primitives before or
\* after them were skipped, and there are as many parts as such primitives.
C15_SkipIsPerPrimitive ==
    (LoadedExisting /\ IsGltfPath(last.path) /\ last.raised # "clear") =>
        LET gltf == Asset(last.path)
            loadable == IF gltf.parse_ok
                        THEN {src \in AllPrimitives(gltf) : Decodes(gltf, src)} ELSE {}
        IN /\ {viewer.meshes[i].src : i \in DOMAIN viewer.meshes} = loadable
           /\ Len(viewer.meshes) = Cardinality(loadable)

\* c.gltf loaded: the primitive with the malformed accessor is skipped, the
\* one before it and the one after it are parts
C15_Witness ==
    /\ LoadedExisting /\ last.path = PC /\ last.raised # "clear"
    /\ ~Decodes(Asset(PC), <<0, 1>>)
    /\ Len(viewer.meshes) = 2
    /\ viewer.meshes[1].src = <<0, 0>> /\ viewer.meshes[2].src = <<0, 2>>

\* the subject accessor of a decoder test asset and its layout
Extracted == last.op = "extracted"
Subject == last.gltf.accessors[2]
SubjectView == last.gltf.bufferViews[2]
SubjectStart == SubjectView.byteOffset + Subject.byteOffset
SubjectOwnBytes ==
    OwnBytes(last.kind, Subject.componentType, Subject.count, SubjectView.byteStride)

\* the component types the decoder has to support
SupportedTypes == {BYTE, UNSIGNED_BYTE, SHORT, UNSIGNED_SHORT, UNSIGNED_INT, FLOAT}

\* the component type glTF prescribes for the attribute
NaturalType(kind, componentType) ==
    IF kind = "indices" THEN componentType \in {UNSIGNED_BYTE, UNSIGNED_SHORT, UNSIGNED_INT}
    ELSE componentType = FLOAT

\* the buffer holds every byte of the accessor's elements
InBuffer == SubjectStart + SubjectOwnBytes <= Len(last.gltf.buffer_data)

\* a valid layout: the elements lie in the bufferView and the bufferView
\* lies in the buffer
ValidLayout ==
    /\ Subject.byteOffset + SubjectOwnBytes <= SubjectView.byteLength
    /\ SubjectView.byteOffset + SubjectView.byteLength <= Len(last.gltf.buffer_data)

\* a part was built from the primitive
PartBuilt == Len(viewer.meshes) = 1

\* C16 (as claimed): a primitive with an otherwise valid accessor of an
\* unsupported component type yields no part.
C16_UnsupportedTypeSkipped ==
    (Extracted /\ ValidLayout /\ Subject.componentType \notin SupportedTypes) => ~PartBuilt

\* C17 (as claimed): a primitive with an accessor (of the type glTF
\* prescribes) whose buffer lacks bytes of its declared elements yields no
\* part: no shorter array is produced and used.
C17_ShortBufferAborts ==
    (Extracted /\ ~InBuffer /\ NaturalType(last.kind, Subject.componentType)) => ~PartBuilt

\* C18 (as claimed): a valid tightly packed accessor of N elements decodes
\* to N tuples, at any byte offset and in a bufferView longer than its range.
C18_TightDecodesAll ==
    (/\ Extracted /\ ValidLayout /\ SubjectView.byteStride = None
     /\ NaturalType(last.kind, Subject.componentType)) =>
        /\ PartBuilt
        /\ last.kind = "POSITION" =>
              /\ Len(viewer.meshes[1].vertices) = Subject.count
              /\ \A i \in 1 .. Subject.count : Len(viewer.meshes[1].vertices[i]) = 3
        /\ last.kind = "NORMAL" => viewer.meshes[1].vertex_normals
        /\ last.kind = "TEXCOORD_0" => viewer.meshes[1].has_uv
        /\ last.kind = "indices" => Len(Flatten(viewer.meshes[1].faces)) = Subject.count

\* element i, component c of the subject read at base_offset + i * stride
StridedElement(i, c) ==
    LET size == ComponentSize(Subject.componentType)
    IN LittleEndian(Slice(last.gltf.buffer_data,
                          SubjectStart + i * SubjectView.byteStride + c * size, size))

\* C19 (as claimed): an interleaved accessor decodes element by element at
\* base_offset + i * stride.
C19_StrideDecoded ==
    (/\ Extracted /\ ValidLayout /\ SubjectView.byteStride # None
     /\ NaturalType(last.kind, Subject.componentType)) =>
        /\ PartBuilt
        /\ last.kind = "POSITION" =>
              viewer.meshes[1].vertices =
                  [i \in 1 .. Subject.count |-> [c \in 1 .. 3 |-> StridedElement(i - 1, c - 1)]]
        /\ last.kind = "NORMAL" => viewer.meshes[1].vertex_normals
        /\ last.kind = "TEXCOORD_0" => viewer.meshes[1].has_uv

\* C20 (as claimed): an indexed primitive whose index accessor declares I
\* indices has face count I / 3, an index array of length I and a draw
\* call for I indices.
C20_IndexCount ==
    (/\ Extracted /\ last.kind = "indices" /\ ValidLayout
     /\ SubjectView.byteStride = None
     /\ NaturalType("indices", Subject.componentType)) =>
        /\ PartBuilt
        /\ Get(viewer.num_faces, 0, None) = Subject.count \div 3
        /\ 0 \in DOMAIN viewer.index_buffers
        /\ viewer.index_buffers[0] # NoneObj
        /\ Len(viewer.index_buffers[0][1]) = Subject.count
        /\ paintGL(World) = << [part |-> 0, texture |-> None,
                                call |-> "glDrawElements", count |-> Subject.count] >>

\* the primitive of the loaded asset a part was extracted from
PrimitiveOf(mesh) ==
    Asset(viewer.model_path).meshes[mesh.src[1] + 1].primitives[mesh.src[2] + 1]

\* C21: a part extracted from a primitive without an index accessor, with
\* V vertices, has face count V/3 and is drawn by the non-indexed draw call
\* over 3*(V/3) vertices
C21_NonIndexedFaceCount ==
    \A i \in DOMAIN viewer.meshes :
        LET mesh == viewer.meshes[i]
            part_id == i - 1
            V == Len(mesh.vertices)
        IN (PrimitiveOf(mesh).indices = None /\ part_id \in DOMAIN viewer.num_faces)
           => /\ viewer.num_faces[part_id] = V \div 3
              /\ render_part_with_vbos(World, part_id).call = "glDrawArrays"
              /\ render_part_with_vbos(World, part_id).count = 3 * (V \div 3)

\* glEnable(GL_TEXTURE_2D) and glBindTexture rather than glDisable: the
\* test at the head of render_part_with_vbos
BindsTexture(w, part_id) ==
    LET texture_id == Get(w.material_map, part_id, None)
    IN texture_id # None /\ texture_id \in DOMAIN w.texture_ids

\* the image behind the base-color texture of a primitive's material, None
\* when the primitive has no material or the material no such texture
BaseColorImage(gltf, primitive) ==
    IF primitive.material = None THEN None
    ELSE IF gltf.materials[primitive.material + 1].baseColorTexture = None THEN None
    ELSE gltf.textures[gltf.materials[primitive.material + 1].baseColorTexture + 1].source

\* the texture map holds a texture built from the asset's image `image`
Uploaded(image) ==
    \E k \in DOMAIN viewer.texture_ids :
        /\ Truthy(viewer.texture_ids[k])
        /\ viewer.texture_ids[k] \in DOMAIN gl.pixels
        /\ gl.pixels[viewer.texture_ids[k]] = image

\* C22: a part is bound to a texture exactly when its primitive's material
\* has a base-color texture whose image was uploaded, and then to the
\* texture built from that image
C22_BindingFollowsBaseColor ==
    \A i \in DOMAIN viewer.meshes :
        LET part_id == i - 1
            image == BaseColorImage(Asset(viewer.model_path), PrimitiveOf(viewer.meshes[i]))
        IN /\ BindsTexture(World, part_id) <=> (image # None /\ Uploaded(image))
           /\ BindsTexture(World, part_id) =>
                  /\ BoundTexture(World, part_id) \in DOMAIN gl.pixels
                  /\ gl.pixels[BoundTexture(World, part_id)] = image

\* an image of the asset the loader decodes: an external file that exists
\* or an embedded image, holding pixels PIL can open (data URIs are left out)
Decodable(image) ==
    /\ image.decodes
    /\ image.uri # "data"
    /\ image.uri = "file" => image.exists

\* the indices of the asset's images that can be decoded
DecodableImages(gltf) ==
    {k \in RangeLen(gltf.images) : Decodable(gltf.images[k + 1])}

\* C23: after a load of a glTF asset the texture map has exactly one entry
\* per image of the asset that decodes, and the entry under key k is the
\* texture built from image k
C23_TexturePerImage ==
    (LoadCompleted /\ IsGltfPath(last.path) /\ Asset(last.path).parse_ok)
    => /\ DOMAIN viewer.texture_ids = DecodableImages(Asset(last.path))
       /\ \A k \in DOMAIN viewer.texture_ids :
              /\ viewer.texture_ids[k] \in DOMAIN gl.pixels
              /\ gl.pixels[viewer.texture_ids[k]] = k

\* C24: no draw call binds a null or dead texture handle, and a model
\* whose image is missing or does not decode is still loaded
C24_DecodeFailureContained ==
    /\ \A n \in DOMAIN paintGL(World) :
           LET part_id == paintGL(World)[n].part
           IN BindsTexture(World, part_id)
              => /\ Truthy(BoundTexture(World, part_id))
                 /\ BoundTexture(World, part_id) \in gl.live
    /\ (LoadCompleted /\ Asset(last.path).trimesh.load = "mesh" /\ last.raised = "no")
       => viewer.mesh # NoneObj /\ Get(viewer.vertex_vbos, 0, None) # None

\* C25: when the allocation of one buffer of a part fails, the part is in
\* the Part list, that slot is absent and the slots allocated before it
\* are present
C25_AllocationFailurePerSlot ==
    \A i \in DOMAIN viewer.meshes :
        LET mesh == viewer.meshes[i]
            part_id == i - 1
        IN /\ (mesh.alloc_fault = "normal" /\ mesh.vertex_normals)
              => /\ Get(viewer.vertex_vbos, part_id, None) # None
                 /\ Get(viewer.normal_vbos, part_id, None) = None
           /\ (mesh.alloc_fault = "uv" /\ mesh.has_uv /\ Len(mesh.vertices) > 0)
              => /\ Get(viewer.vertex_vbos, part_id, None) # None
                 /\ mesh.vertex_normals => Get(viewer.normal_vbos, part_id, None) # None
                 /\ Get(viewer.uv_vbos, part_id, None) = None

\* C26: a load that completes asks for a repaint after the Visibility Map
\* is reconciled, and for none between its clear and its reconcile step
C26_RedrawAfterReconcile ==
    LoadCompleted
    => /\ update_pending
       /\ \E r \in DOMAIN last.calls :
              /\ last.calls[r] = "reconcile"
              /\ \E u \in (r + 1) .. Len(last.calls) : last.calls[u] = "update"
              /\ \A u \in 1 .. (r - 1) : last.calls[u] # "update"

\* a model with parts was loaded and reconciled
C26_Witness ==
    /\ LoadCompleted
    /\ Len(viewer.meshes) = 2
    /\ last.calls = <<"clear", "reconcile", "update">>

\* the two orbit angles, the pan translation and the zoom
View(c) == <<c.rotation_x, c.rotation_y, c.translate_x, c.translate_y, c.zoom>>

\* C27: a load_model call, whether it succeeds, fails or returns early,
\* leaves the two orbit angles, the pan translation and the zoom as they were
C27_CameraPersists ==
    [][last'.op = "load" => View(camera') = View(camera)]_vars

\* C27: a two-part model has just been loaded under a camera that was
\* orbited, panned and zoomed before
C27_Witness ==
    /\ last.op = "load"
    /\ last.raised = "no"
    /\ Len(viewer.meshes) = 2
    /\ camera.rotation_y # NewCamera.rotation_y
    /\ camera.translate_x # NewCamera.translate_x
    /\ camera.zoom # NewCamera.zoom

InputOps == {"press", "move", "wheel"}

\* C28: a mouse press, a mouse move and a wheel turn leave every field of
\* the viewer other than the camera unchanged, create and delete no GL
\* object and upload no image; a move
\* with both buttons held leaves the pan translation and the zoom unchanged
\* and turns the orbit angles by half the pointer's displacement
C28_InputChangesCameraOnly ==
    [][(last'.op \in InputOps
          => /\ viewer' = viewer
             /\ gl'.live = gl.live /\ gl'.pixels = gl.pixels
             /\ gl'.deleted = EmptyDict)
       /\ (last'.op = "move" /\ last'.buttons = {"left", "middle"}
             => /\ camera'.translate_x = camera.translate_x
                /\ camera'.translate_y = camera.translate_y
                /\ camera'.zoom = camera.zoom
                /\ camera.last_pos # NoneObj
                     => /\ camera'.rotation_y - camera.rotation_y
                             = (last'.position[1] - camera.last_pos[1][1]) * 50
                        /\ camera'.rotation_x - camera.rotation_x
                             = (last'.position[2] - camera.last_pos[1][2]) * 50)]_vars

\* C28: a move with both buttons held has just ended on a loaded two-part
\* model with the orbit turned and the pan where it started
C28_Witness ==
    /\ last.op = "move"
    /\ last.buttons = {"left", "middle"}
    /\ Len(viewer.meshes) = 2
    /\ camera.rotation_y # NewCamera.rotation_y
    /\ camera.translate_x = NewCamera.translate_x
    /\ camera.translate_y = NewCamera.translate_y


\* the part ids of a frame's draw calls, in the order issued
DrawnIds(draws) == [k \in 1 .. Len(draws) |-> draws[k].part]

\* C29: in every frame the draw calls go by ascending part id, no draw
\* call is issued for an id whose Visibility Map entry is false, and each
\* Part whose entry is true or missing gets exactly one draw call
C29_FrameDrawsVisibleParts ==
    gl_ready =>
        LET ids == DrawnIds(paintGL(World))
        IN /\ \A j, k \in 1 .. Len(ids) : j < k => ids[j] < ids[k]
           /\ \A k \in 1 .. Len(ids) : Get(viewer.part_visibility, ids[k], TRUE)
           /\ \A part_id \in RangeLen(viewer.meshes) :
                 Get(viewer.part_visibility, part_id, TRUE)
                     => Cardinality({k \in 1 .. Len(ids) : ids[k] = part_id}) = 1


\* every vertex of every Part of the scene is the same point
Degenerate(scene) ==
    \A i, j \in DOMAIN scene : \A k, l \in 1 .. 3 : scene[i][k] = scene[j][l]

\* C30: after the load of a scene whose vertices all coincide, every Part
\* has the vertex positions of the asset, undivided, and the one vertex
\* buffer that was created for it when the Part was built
C30_DegenerateSceneUntouched ==
    last.op = "loaded" /\ Degenerate(last.scene) =>
        /\ Len(viewer.meshes) = Len(last.scene)
        /\ \A i \in DOMAIN last.scene :
              /\ viewer.meshes[i].vertices = last.scene[i]
              /\ viewer.meshes[i].den = 1
              /\ viewer.vertex_vbos[i - 1] = i
        /\ gl.live = 1 .. Len(last.scene)

\* C30: a scene of two Parts whose six vertices coincide has been loaded
C30_Witness ==
    /\ last.op = "loaded"
    /\ Len(last.scene) = 2
    /\ Degenerate(last.scene)
    /\ Len(viewer.meshes) = 2


\* the positions of the primitive a part was extracted from, as decoded
SourcePositions(mesh) ==
    extract_primitive_mesh(Asset(viewer.model_path), PrimitiveOf(mesh), mesh.src)[1].vertices

\* the decoded positions of all parts of the loaded asset, stacked
ScenePositions == Concat([i \in DOMAIN viewer.meshes |-> SourcePositions(viewer.meshes[i])])

\* the last load found its file, raised nothing, and built a scene whose
\* bounding box has a non-zero extent
LoadedScene ==
    /\ LoadCompleted
    /\ last.raised = "no"
    /\ viewer.meshes # << >>
    /\ MaxSizeRange(ScenePositions) > 0

\* C31: after a successful load of a non-degenerate scene every coordinate
\* p of every Part is scale * (s - centroid) for its decoded value s, with
\* scale = 4 / (largest extent of the scene) and centroid the mean of all
\* the scene's vertices, and the Part's vertex buffer holds the same
\* positions.  With p = num / den, n vertices and sum their coordinate
\* sum, that is num * extent * n = den * 4 * (s * n - sum).
C31_ScaledOnceAndUploaded ==
    LoadedScene =>
        LET all == ScenePositions
            n == Len(all)
            ext == MaxSizeRange(all)
        IN \A i \in DOMAIN viewer.meshes :
              LET mesh == viewer.meshes[i]
                  src == SourcePositions(mesh)
                  handle == Get(viewer.vertex_vbos, i - 1, None)
              IN /\ mesh.den > 0
                 /\ DOMAIN mesh.vertices = DOMAIN src
                 /\ \A k \in DOMAIN src : \A a \in 1 .. Dim :
                       mesh.vertices[k][a] * ext * n
                           = mesh.den * TargetExtent * (src[k][a] * n - SumAxis(all, a))
                 /\ handle # None
                 /\ handle \in DOMAIN gl.arrays
                 /\ gl.arrays[handle].vertices = mesh.vertices
                 /\ gl.arrays[handle].den = mesh.den

\* C31: a scene of two Parts has been loaded and normalized
C31_Witness ==
    /\ LoadedScene
    /\ Len(viewer.meshes) = 2
    /\ viewer.meshes[2].den > 1


\* C33: after any load each Part's key in the material map is the material
\* index of the primitive the Part was built from, and the Part has no key
\* when that primitive has no material
C33_BindingKeyIsOwnMaterial ==
    (last.op = "load" /\ IsGltfPath(viewer.model_path)) =>
        \A i \in DOMAIN viewer.meshes :
            Get(viewer.material_map, i - 1, None) = PrimitiveOf(viewer.meshes[i]).material


\* the positions of a step in the log of a handler
At(calls, step) == {k \in DOMAIN calls : calls[k] = step}

\* C32: no frame is painted between the start of clear_model_data and the
\* end of apply_visibility_settings of a load: in the steps of a load no
\* "paint" follows "clear" unless "reconcile" lies between them
C32_NoFrameInsideLoad ==
    last.op = "load" =>
        \A p \in At(last.calls, "paint"), c \in At(last.calls, "clear") :
            c < p => \E r \in At(last.calls, "reconcile") : c < r /\ r < p

\* the QThread objects that are running
Running(c) == {t \in DOMAIN c.threads : isRunning(c.threads[t])}

\* C34: at most one LLM worker thread is running at any time
C34_OneWorkerThread == Cardinality(Running(chat)) <= 1

\* C36: the conversation history never holds more than max_history_length
\* entries
C36_HistoryWithinLimit == chat.conversation_history <= chat.max_history_length

\* C37: once New Chat has returned, no response to a message sent before
\* it is logged in chat_history or shown in the chat bubble, and the
\* conversation history is empty until the next message is sent
C37_NewChatDropsOldMessages ==
    /\ "stale" \notin chat.chat_history
    /\ ~chat.chat_bubble.stale
    /\ ~chat.sent => chat.conversation_history = 0

\* C38: at most one typing-animation timer is active at any time
C38_OneAnimationTimer == chat.timers <= 1

\* C35: whenever send_message has disabled the chat input and the send
\* button, both are eventually enabled again
C35_ControlsEnabledAgain ==
    (~chat.chat_input.enabled /\ ~chat.send_button)
        ~> (chat.chat_input.enabled /\ chat.send_button)

\* the rectangle lies within a video of the given size
Within(rect, size) ==
    /\ 0 <= rect.x
    /\ 0 <= rect.y
    /\ rect.x + rect.width <= size[1]
    /\ rect.y + rect.height <= size[2]

\* C39: the crop rectangle that set_crop stores for an initialised video
\* lies within the video: 0 <= x, 0 <= y, x + width <= W, y + height <= H
C39_CropWithinVideo ==
    video.video_initialized => Within(video.crop_rect, video.video_size)

\* the corner is on the screen far enough for the drag area to stay on it
DragAreaOnScreen(win) ==
    /\ 0 <= win.pos[1] /\ win.pos[1] <= Max(0, win.screen[1] - win.drag_area_size)
    /\ 0 <= win.pos[2] /\ win.pos[2] <= Max(0, win.screen[2] - win.drag_area_size)

\* the whole window is on the screen, as far as it fits
WindowOnScreen(win) ==
    /\ win.pos[1] <= Max(0, win.screen[1] - win.size[1])
    /\ win.pos[2] <= Max(0, win.screen[2] - win.size[2])

\* C40: after a drag move the corner of the window keeps the drag area on
\* the screen, and the whole window when allow_overflow is false; a mouse
\* move while no drag is active leaves the position unchanged
C40_DragKeepsWindowOnScreen ==
    [][window'.handled = "mouseMoveEvent" =>
          IF window.is_dragging /\ window.old_pos # NoneObj
          THEN /\ DragAreaOnScreen(window')
               /\ ~window.config.allow_overflow => WindowOnScreen(window')
          ELSE window'.pos = window.pos]_vars

\* C40 witness: a drag move with overflow allowed has been stopped at the
\* right edge, the window reaching beyond the screen
C40_Witness ==
    /\ window.handled = "mouseMoveEvent"
    /\ window.is_dragging
    /\ window.config.allow_overflow
    /\ window.pos[1] = window.screen[1] - window.drag_area_size
    /\ window.pos[1] + window.size[1] > window.screen[1]

====
